---- MODULE Spec2Model ----
(***************************************************************************)
(* A model of the ledger-consistency engine of meowny: the wallets and     *)
(* transactions tables with TransactionService (create / update / delete   *)
(* and the two balance helpers), and the lend_borrow and                   *)
(* lend_borrow_payments tables with LendBorrowService (create, addPayment, *)
(* deletePayment), the budgets table with BudgetService (upsertBudget,     *)
(* copyBudgets) and the bill_reminders table with BillReminderService      *)
(* (markAsPaid and the successor it spawns, snooze), the spending and      *)
(* summary queries over dated transactions, SettingsService with           *)
(* initializeDefaults, the seeding of the categories table by              *)
(* initializeDatabase, WalletService (recalculateBalance, delete), and two *)
(* callers at once of TransactionService, of LendBorrowService and of      *)
(* BudgetService.upsertBudget.                                             *)
(*                                                                         *)
(* Amounts are modelled as integers (the columns are SQLite reals): the    *)
(* arithmetic of the services is +, - and max only.                        *)
(***************************************************************************)
EXTENDS Integers, FiniteSets, Sequences, TLC

VARIABLES
    wallets,            \* wallets table: wallet id -> row
    transactions,       \* transactions table: transaction id -> row
    openingBalance,     \* wallet id -> balance the wallet row was created with
    lendBorrow,         \* lend_borrow table: record id -> row
    lendBorrowPayments, \* lend_borrow_payments table: payment id -> row
    requested,          \* record id -> the remainingAmount its create() was given
    pc,                 \* the await point the TransactionService call in flight is at
    call,               \* the local variables of the call in flight
    before,             \* the store as it was when the call in flight began
    seen,               \* what the last getTotalBalance() returned, if any did
    failures,           \* how many statements have thrown
    budgets,            \* budgets table: budget id -> row
    billReminders,      \* bill_reminders table: reminder id -> row
    foreignKeys,        \* whether the connection enforces REFERENCES clauses
    settings,           \* settings table: key -> value
    categories,         \* categories table: category id -> row
    inflight,           \* caller -> the TransactionService call it has in flight
    zone                \* the time zone the Date methods of the runtime use

ledgerVars == <<wallets, transactions, openingBalance>>
debtVars == <<lendBorrow, lendBorrowPayments, requested>>
stepVars == <<pc, call, before, seen, failures>>
planVars == <<budgets, billReminders>>
appVars == <<settings, categories, inflight, zone>>
baseVars == <<foreignKeys, appVars>>
aside == <<debtVars, planVars, baseVars>>
notLedger == <<aside, stepVars>>
notDebt == <<ledgerVars, stepVars, planVars, baseVars>>
notPlan == <<ledgerVars, debtVars, stepVars, baseVars>>
vars == <<ledgerVars, debtVars, stepVars, planVars, baseVars>>

----------------------------------------------------------------------------
(* Bounds of the model. *)

MaxAmount == 2      \* transaction amounts are 1..MaxAmount
MaxLend == 3        \* lend/borrow amounts are 1..MaxLend
MaxPay == 2         \* payment amounts are at most MaxPay

NoWallet == "null"  \* to_wallet_id IS NULL
WalletIds == {"A", "B"}
TxIds == {"t1", "t2"}
TxTypes == {"income", "expense", "transfer"}
Amounts == 1..MaxAmount
Fees == {0, 1}
LendIds == {"L1", "L2"}
PaymentIds == {"p1", "p2"}
LendAmounts == 1..MaxLend
PayAmounts == (-1)..MaxPay
PositivePayAmounts == 1..MaxPay
OpeningBalances == {[w \in WalletIds |-> IF w = "A" THEN 1000 ELSE 0]}

----------------------------------------------------------------------------
(* Rows and inputs. *)

\* a wallet row as WalletService.create inserts it (isActive defaults to TRUE)
WalletRow(b) == [balance |-> b, type |-> "bank", isActive |-> TRUE]

\* the drafts TransactionService.create is called with
Drafts ==
    [walletId : WalletIds, type : TxTypes, amount : Amounts,
     toWalletId : WalletIds \cup {NoWallet}, transferFee : Fees]

\* an optional property of a Partial<...>: {} when absent, {v} when present
Opt(S) == {{}} \cup {{v} : v \in S}

\* the data TransactionService.update is called with
Patches ==
    [walletId : Opt(WalletIds), type : Opt(TxTypes), amount : Opt(Amounts),
     toWalletId : Opt(WalletIds \cup {NoWallet}), transferFee : Opt(Fees)]

\* one property of { ...row, ...data }
Spread(old, o) == IF o = {} THEN old ELSE CHOOSE v \in o : TRUE

\* UPDATE transactions SET ...data: the row with the given properties replaced
SetRow(row, data) ==
    [walletId |-> Spread(row.walletId, data.walletId),
     type |-> Spread(row.type, data.type),
     amount |-> Spread(row.amount, data.amount),
     toWalletId |-> Spread(row.toWalletId, data.toWalletId),
     transferFee |-> Spread(row.transferFee, data.transferFee)]

----------------------------------------------------------------------------
(* TransactionService: the balance helpers, as functions of the wallets    *)
(* table.                                                                  *)

\* UPDATE wallets SET balance = balance + delta WHERE id = w
AddToBalance(ws, w, delta) ==
    IF w \in DOMAIN ws
    THEN [ws EXCEPT ![w].balance = @ + delta]
    ELSE ws

\* mutant of updateWalletBalance: the transfer fee is not taken from the source
updateWalletBalance_noFee(ws, t) ==
    IF t.type = "income"
    THEN AddToBalance(ws, t.walletId, t.amount)
    ELSE IF t.type = "expense"
    THEN AddToBalance(ws, t.walletId, -t.amount)
    ELSE IF t.type = "transfer" /\ t.toWalletId # NoWallet
    THEN AddToBalance(AddToBalance(ws, t.walletId, -t.amount),
                      t.toWalletId, t.amount)
    ELSE ws

\* mutant of updateWalletBalance: a transfer without destination debits the source
updateWalletBalance_debitOnly(ws, t) ==
    IF t.type = "income"
    THEN AddToBalance(ws, t.walletId, t.amount)
    ELSE IF t.type = "expense"
    THEN AddToBalance(ws, t.walletId, -t.amount)
    ELSE IF t.type = "transfer" /\ t.toWalletId # NoWallet
    THEN AddToBalance(
             AddToBalance(ws, t.walletId, -t.amount - t.transferFee),
             t.toWalletId, t.amount)
    ELSE IF t.type = "transfer"
    THEN AddToBalance(ws, t.walletId, -t.amount)
    ELSE ws

updateWalletBalance(ws, t) ==
    IF t.type = "income"
    THEN AddToBalance(ws, t.walletId, t.amount)
    ELSE IF t.type = "expense"
    THEN AddToBalance(ws, t.walletId, -t.amount)
    ELSE IF t.type = "transfer" /\ t.toWalletId # NoWallet
    THEN AddToBalance(
             AddToBalance(ws, t.walletId, -t.amount - t.transferFee),
             t.toWalletId, t.amount)
    ELSE ws

\* mutant of reverseWalletBalance: the reversal of a transfer leaves the fee out
reverseWalletBalance_noFee(ws, t) ==
    IF t.type = "income"
    THEN AddToBalance(ws, t.walletId, -t.amount)
    ELSE IF t.type = "expense"
    THEN AddToBalance(ws, t.walletId, t.amount)
    ELSE IF t.type = "transfer" /\ t.toWalletId # NoWallet
    THEN AddToBalance(AddToBalance(ws, t.walletId, t.amount),
                      t.toWalletId, -t.amount)
    ELSE ws

\* mutant of reverseWalletBalance: the reversal of a transfer without
\* destination gives the amount back to the source
reverseWalletBalance_creditBack(ws, t) ==
    IF t.type = "income"
    THEN AddToBalance(ws, t.walletId, -t.amount)
    ELSE IF t.type = "expense"
    THEN AddToBalance(ws, t.walletId, t.amount)
    ELSE IF t.type = "transfer" /\ t.toWalletId # NoWallet
    THEN AddToBalance(
             AddToBalance(ws, t.walletId, t.amount + t.transferFee),
             t.toWalletId, -t.amount)
    ELSE IF t.type = "transfer"
    THEN AddToBalance(ws, t.walletId, t.amount)
    ELSE ws

reverseWalletBalance(ws, t) ==
    IF t.type = "income"
    THEN AddToBalance(ws, t.walletId, -t.amount)
    ELSE IF t.type = "expense"
    THEN AddToBalance(ws, t.walletId, t.amount)
    ELSE IF t.type = "transfer" /\ t.toWalletId # NoWallet
    THEN AddToBalance(
             AddToBalance(ws, t.walletId, t.amount + t.transferFee),
             t.toWalletId, -t.amount)
    ELSE ws

----------------------------------------------------------------------------
(* TransactionService: the operations, as functions of the store           *)
(* [wallets, transactions].                                                *)

Store(ws, txs) == [wallets |-> ws, transactions |-> txs]

\* INSERT INTO transactions
InsertTx(txs, id, row) ==
    [i \in DOMAIN txs \cup {id} |-> IF i = id THEN row ELSE txs[i]]

\* DELETE FROM transactions WHERE id = id
RemoveTx(txs, id) == [i \in DOMAIN txs \ {id} |-> txs[i]]

\* create(transaction), id being the fresh uuid
createTx(s, id, draft) ==
    Store(updateWalletBalance(s.wallets, draft),
          InsertTx(s.transactions, id, draft))

\* mutant of reverseAndApply: the old transaction's effect is reversed on the
\* wallets of the updated row (a diff-then-adjust update)
reverseAndApply_onNewWallets(s, id, updated) ==
    LET oldTransaction == s.transactions[id]
        reversed == reverseWalletBalance(
                        s.wallets,
                        [oldTransaction EXCEPT
                            !.walletId = updated.walletId,
                            !.toWalletId = updated.toWalletId])
    IN  Store(updateWalletBalance(reversed, updated),
              [s.transactions EXCEPT ![id] = updated])

\* update(id, data) on a stored id, from the reversal on: updated is the row
\* the UPDATE ... RETURNING gives
reverseAndApply(s, id, updated) ==
    LET oldTransaction == s.transactions[id]
        reversed == reverseWalletBalance(s.wallets, oldTransaction)
    IN  Store(updateWalletBalance(reversed, updated),
              [s.transactions EXCEPT ![id] = updated])

\* update(id, data) on a stored id
updateTx(s, id, data) ==
    reverseAndApply(s, id, SetRow(s.transactions[id], data))

\* mutant of deleteTx: the row is removed without reversing its effect
deleteTx_noReverse(s, id) ==
    IF id \in DOMAIN s.transactions
    THEN Store(s.wallets, RemoveTx(s.transactions, id))
    ELSE s

\* delete(id)
deleteTx(s, id) ==
    IF id \in DOMAIN s.transactions
    THEN Store(reverseWalletBalance(s.wallets, s.transactions[id]),
               RemoveTx(s.transactions, id))
    ELSE s

----------------------------------------------------------------------------
(* The ledger as a state machine: one action per service call.             *)

LedgerInit ==
    /\ openingBalance \in OpeningBalances
    /\ wallets = [w \in WalletIds |-> WalletRow(openingBalance[w])]
    /\ transactions = <<>>

DebtIdle ==
    /\ lendBorrow = <<>>
    /\ lendBorrowPayments = <<>>
    /\ requested = <<>>

Create(id, draft) ==
    /\ id \notin DOMAIN transactions
    /\ LET s == createTx(Store(wallets, transactions), id, draft)
       IN  /\ wallets' = s.wallets
           /\ transactions' = s.transactions
    /\ UNCHANGED <<openingBalance, notLedger>>

\* update(id, data) on a stored id, for any data
Update(id) ==
    /\ id \in DOMAIN transactions
    /\ \E updated \in {SetRow(transactions[id], data) : data \in Patches} :
           LET s == reverseAndApply(Store(wallets, transactions), id, updated)
           IN  /\ wallets' = s.wallets
               /\ transactions' = s.transactions
    /\ UNCHANGED <<openingBalance, notLedger>>

Delete(id) ==
    /\ LET s == deleteTx(Store(wallets, transactions), id)
       IN  /\ wallets' = s.wallets
           /\ transactions' = s.transactions
    /\ UNCHANGED <<openingBalance, notLedger>>

NoCall == [op |-> "none", id |-> "none", old |-> {}, new |-> {}]

\* no TransactionService call is in flight and nothing was read
StepIdle ==
    /\ pc = "idle"
    /\ call = NoCall
    /\ before = Store(wallets, transactions)
    /\ seen = {}
    /\ failures = 0

\* the budgets and bill_reminders tables are empty
PlanIdle ==
    /\ budgets = <<>>
    /\ billReminders = <<>>

\* db.ts opens the database and sets no PRAGMA: SQLite then leaves foreign
\* keys unenforced unless the library was built to enforce them
BaseOff == foreignKeys = FALSE

\* the settings and categories tables are empty and no caller has a call
\* in flight
TablesIdle ==
    /\ settings = <<>>
    /\ categories = <<>>
    /\ inflight = <<>>

\* a time zone whose offset never changes
AppIdle == TablesIdle /\ zone = "fixed"

BaseIdle == BaseOff /\ AppIdle

Init == LedgerInit /\ DebtIdle /\ StepIdle /\ PlanIdle /\ BaseIdle

Next ==
    \/ \E id \in TxIds, draft \in Drafts : Create(id, draft)
    \/ \E id \in TxIds : Update(id)
    \/ \E id \in TxIds : Delete(id)

Spec == Init /\ [][Next]_vars

----------------------------------------------------------------------------
(* LendBorrowService, as functions of the store [lendBorrow, payments].    *)

\* the records LendBorrowService.create is called with: the amount, and the
\* remainingAmount property ({} when it is left out); status is left to the
\* column default
LendDrafts ==
    {record \in [amount : LendAmounts, remainingAmount : Opt(0..MaxLend)] :
        \A v \in record.remainingAmount : v <= record.amount}

Debts(lb, pays) == [lendBorrow |-> lb, payments |-> pays]

Max(a, b) == IF a >= b THEN a ELSE b

\* record.remainingAmount || record.amount
RemainingOrAmount(record) ==
    IF record.remainingAmount = {} \/ record.remainingAmount = {0}
    THEN record.amount
    ELSE CHOOSE v \in record.remainingAmount : TRUE

\* create(record), id being the fresh uuid
createLend(d, id, record) ==
    Debts([i \in DOMAIN d.lendBorrow \cup {id} |->
              IF i = id
              THEN [amount |-> record.amount,
                    remainingAmount |-> RemainingOrAmount(record),
                    status |-> "pending"]
              ELSE d.lendBorrow[i]],
          d.payments)

\* getPayments(lendBorrowId): the ids of the record's payment rows
getPayments(pays, lendBorrowId) ==
    {p \in DOMAIN pays : pays[p].lendBorrowId = lendBorrowId}

\* payments.reduce((sum, p) => sum + p.amount, 0)
RECURSIVE SumPayments(_, _)
SumPayments(pays, ids) ==
    IF ids = {}
    THEN 0
    ELSE LET p == CHOOSE p \in ids : TRUE
         IN  pays[p].amount + SumPayments(pays, ids \ {p})

\* mutant of addPayment: the new remaining amount is stored unclamped
addPayment_noClamp(d, lendBorrowId, paymentId, amount) ==
    IF lendBorrowId \notin DOMAIN d.lendBorrow
    THEN d
    ELSE LET record == d.lendBorrow[lendBorrowId]
             newRemaining == record.remainingAmount - amount
             newStatus == IF newRemaining <= 0 THEN "completed"
                          ELSE IF newRemaining < record.amount THEN "partial"
                          ELSE record.status
         IN  Debts([d.lendBorrow EXCEPT
                       ![lendBorrowId].remainingAmount = newRemaining,
                       ![lendBorrowId].status = newStatus],
                   [p \in DOMAIN d.payments \cup {paymentId} |->
                       IF p = paymentId
                       THEN [lendBorrowId |-> lendBorrowId, amount |-> amount]
                       ELSE d.payments[p]])

\* mutant of addPayment: the two status tests are taken in the other order
addPayment_partialFirst(d, lendBorrowId, paymentId, amount) ==
    IF lendBorrowId \notin DOMAIN d.lendBorrow
    THEN d
    ELSE LET record == d.lendBorrow[lendBorrowId]
             newRemaining == record.remainingAmount - amount
             newStatus == IF newRemaining < record.amount THEN "partial"
                          ELSE IF newRemaining <= 0 THEN "completed"
                          ELSE record.status
         IN  Debts([d.lendBorrow EXCEPT
                       ![lendBorrowId].remainingAmount = Max(0, newRemaining),
                       ![lendBorrowId].status = newStatus],
                   [p \in DOMAIN d.payments \cup {paymentId} |->
                       IF p = paymentId
                       THEN [lendBorrowId |-> lendBorrowId, amount |-> amount]
                       ELSE d.payments[p]])

\* mutant of addPayment: the payment row is inserted before the record is
\* looked up
addPayment_orphan(d, lendBorrowId, paymentId, amount) ==
    LET inserted == [p \in DOMAIN d.payments \cup {paymentId} |->
                        IF p = paymentId
                        THEN [lendBorrowId |-> lendBorrowId, amount |-> amount]
                        ELSE d.payments[p]]
    IN  IF lendBorrowId \notin DOMAIN d.lendBorrow
        THEN Debts(d.lendBorrow, inserted)
        ELSE LET record == d.lendBorrow[lendBorrowId]
                 newRemaining == record.remainingAmount - amount
                 newStatus == IF newRemaining <= 0 THEN "completed"
                              ELSE IF newRemaining < record.amount
                              THEN "partial"
                              ELSE record.status
             IN  Debts([d.lendBorrow EXCEPT
                           ![lendBorrowId].remainingAmount =
                               Max(0, newRemaining),
                           ![lendBorrowId].status = newStatus],
                       inserted)

\* addPayment: if (!record) throw new Error("Lend/Borrow record not found")
addPaymentThrows(d, lendBorrowId) == lendBorrowId \notin DOMAIN d.lendBorrow

\* addPayment(lendBorrowId, payment), paymentId being the fresh uuid; the
\* store is returned as it is when the record is not found (the call throws)
addPayment(d, lendBorrowId, paymentId, amount) ==
    IF lendBorrowId \notin DOMAIN d.lendBorrow
    THEN d
    ELSE LET record == d.lendBorrow[lendBorrowId]
             newRemaining == record.remainingAmount - amount
             newStatus == IF newRemaining <= 0 THEN "completed"
                          ELSE IF newRemaining < record.amount THEN "partial"
                          ELSE record.status
         IN  Debts([d.lendBorrow EXCEPT
                       ![lendBorrowId].remainingAmount = Max(0, newRemaining),
                       ![lendBorrowId].status = newStatus],
                   [p \in DOMAIN d.payments \cup {paymentId} |->
                       IF p = paymentId
                       THEN [lendBorrowId |-> lendBorrowId, amount |-> amount]
                       ELSE d.payments[p]])

\* mutant of deletePayment: the status is not derived again
deletePayment_keepStatus(d, paymentId) ==
    IF paymentId \notin DOMAIN d.payments
    THEN d
    ELSE LET payment == d.payments[paymentId]
             left == [p \in DOMAIN d.payments \ {paymentId} |-> d.payments[p]]
         IN  IF payment.lendBorrowId \notin DOMAIN d.lendBorrow
             THEN Debts(d.lendBorrow, left)
             ELSE LET record == d.lendBorrow[payment.lendBorrowId]
                      totalPaid ==
                          SumPayments(left,
                                      getPayments(left, payment.lendBorrowId))
                      newRemaining == record.amount - totalPaid
                  IN  Debts([d.lendBorrow EXCEPT
                                ![payment.lendBorrowId].remainingAmount =
                                    Max(0, newRemaining)],
                            left)

\* mutant of deletePayment: the deleted amount is added back to the stored
\* remaining amount instead of summing the payments that are left
deletePayment_addBack(d, paymentId) ==
    IF paymentId \notin DOMAIN d.payments
    THEN d
    ELSE LET payment == d.payments[paymentId]
             left == [p \in DOMAIN d.payments \ {paymentId} |-> d.payments[p]]
         IN  IF payment.lendBorrowId \notin DOMAIN d.lendBorrow
             THEN Debts(d.lendBorrow, left)
             ELSE LET record == d.lendBorrow[payment.lendBorrowId]
                      newRemaining == record.remainingAmount + payment.amount
                      newStatus == IF newRemaining <= 0 THEN "completed"
                                   ELSE IF newRemaining < record.amount
                                   THEN "partial"
                                   ELSE "pending"
                  IN  Debts([d.lendBorrow EXCEPT
                                ![payment.lendBorrowId].remainingAmount =
                                    Max(0, newRemaining),
                                ![payment.lendBorrowId].status = newStatus],
                            left)

\* deletePayment(paymentId); the store is returned as it is when the payment
\* is not found (the call throws)
deletePayment(d, paymentId) ==
    IF paymentId \notin DOMAIN d.payments
    THEN d
    ELSE LET payment == d.payments[paymentId]
             left == [p \in DOMAIN d.payments \ {paymentId} |-> d.payments[p]]
         IN  IF payment.lendBorrowId \notin DOMAIN d.lendBorrow
             THEN Debts(d.lendBorrow, left)
             ELSE LET record == d.lendBorrow[payment.lendBorrowId]
                      totalPaid ==
                          SumPayments(left,
                                      getPayments(left, payment.lendBorrowId))
                      newRemaining == record.amount - totalPaid
                      newStatus == IF newRemaining <= 0 THEN "completed"
                                   ELSE IF newRemaining < record.amount
                                   THEN "partial"
                                   ELSE "pending"
                  IN  Debts([d.lendBorrow EXCEPT
                                ![payment.lendBorrowId].remainingAmount =
                                    Max(0, newRemaining),
                                ![payment.lendBorrowId].status = newStatus],
                            left)

----------------------------------------------------------------------------
(* The debt tracker as a state machine: one action per service call.       *)

CreateLend(id, record) ==
    /\ id \notin DOMAIN lendBorrow
    /\ lendBorrow' =
           createLend(Debts(lendBorrow, lendBorrowPayments), id, record).lendBorrow
    /\ requested' = [i \in DOMAIN requested \cup {id} |->
                        IF i = id THEN record.remainingAmount ELSE requested[i]]
    /\ UNCHANGED <<lendBorrowPayments, notDebt>>

AddPayment(lendBorrowId, paymentId, amount) ==
    /\ paymentId \notin DOMAIN lendBorrowPayments
    /\ LET d == addPayment(Debts(lendBorrow, lendBorrowPayments),
                           lendBorrowId, paymentId, amount)
       IN  /\ lendBorrow' = d.lendBorrow
           /\ lendBorrowPayments' = d.payments
    /\ UNCHANGED <<requested, notDebt>>

DeletePayment(paymentId) ==
    /\ LET d == deletePayment(Debts(lendBorrow, lendBorrowPayments), paymentId)
       IN  /\ lendBorrow' = d.lendBorrow
           /\ lendBorrowPayments' = d.payments
    /\ UNCHANGED <<requested, notDebt>>

InitDebt == LedgerInit /\ DebtIdle /\ StepIdle /\ PlanIdle /\ BaseIdle

NextDebt ==
    \/ \E id \in LendIds, record \in LendDrafts : CreateLend(id, record)
    \/ \E id \in LendIds, p \in PaymentIds, amount \in PayAmounts :
           AddPayment(id, p, amount)
    \/ \E p \in PaymentIds : DeletePayment(p)

\* create, addPayment and deletePayment in any order, with any amounts
SpecDebt == InitDebt /\ [][NextDebt]_vars

NextDebtAppend ==
    \/ \E id \in LendIds, record \in LendDrafts : CreateLend(id, record)
    \/ \E id \in LendIds, p \in PaymentIds, amount \in PositivePayAmounts :
           AddPayment(id, p, amount)

\* append-only payments: create and addPayment with positive amounts
SpecDebtAppend == InitDebt /\ [][NextDebtAppend]_vars

NextDebtOne ==
    \/ \E record \in LendDrafts : CreateLend("L1", record)
    \/ \E p \in PaymentIds, amount \in PayAmounts : AddPayment("L1", p, amount)
    \/ \E p \in PaymentIds : DeletePayment(p)

\* create, addPayment and deletePayment on one record: the calls on a
\* record read and write no other record
SpecDebtOne == InitDebt /\ [][NextDebtOne]_vars

----------------------------------------------------------------------------
(* Claims about the ledger.                                                *)

Here == Store(wallets, transactions)

\* what the specification says a stored transaction contributes to wallet w
Effect(t, w) ==
    IF t.type = "income"
    THEN (IF w = t.walletId THEN t.amount ELSE 0)
    ELSE IF t.type = "expense"
    THEN (IF w = t.walletId THEN -t.amount ELSE 0)
    ELSE IF t.type = "transfer" /\ t.toWalletId # NoWallet
    THEN (IF w = t.walletId THEN -(t.amount + t.transferFee) ELSE 0)
         + (IF w = t.toWalletId THEN t.amount ELSE 0)
    ELSE 0

RECURSIVE EffectSum(_, _, _)
EffectSum(txs, ids, w) ==
    IF ids = {}
    THEN 0
    ELSE LET i == CHOOSE i \in ids : TRUE
         IN  Effect(txs[i], w) + EffectSum(txs, ids \ {i}, w)

RECURSIVE BalanceSum(_, _)
BalanceSum(ws, ids) ==
    IF ids = {}
    THEN 0
    ELSE LET w == CHOOSE w \in ids : TRUE
         IN  ws[w].balance + BalanceSum(ws, ids \ {w})

RECURSIVE OpeningSum(_)
OpeningSum(ids) ==
    IF ids = {}
    THEN 0
    ELSE LET w == CHOOSE w \in ids : TRUE
         IN  openingBalance[w] + OpeningSum(ids \ {w})

\* sum of Pick(row) over the stored transactions, Pick being one of the
\* totals below
IncomeOf(t) == IF t.type = "income" THEN t.amount ELSE 0
ExpenseOf(t) == IF t.type = "expense" THEN t.amount ELSE 0
FeeOf(t) == IF t.type = "transfer" THEN t.transferFee ELSE 0
RoutedFeeOf(t) ==
    IF t.type = "transfer" /\ t.toWalletId # NoWallet THEN t.transferFee ELSE 0

RECURSIVE NetOf(_, _, _)
NetOf(txs, ids, withUnrouted) ==
    IF ids = {}
    THEN 0
    ELSE LET i == CHOOSE i \in ids : TRUE
         IN  IncomeOf(txs[i]) - ExpenseOf(txs[i])
             - (IF withUnrouted THEN FeeOf(txs[i]) ELSE RoutedFeeOf(txs[i]))
             + NetOf(txs, ids \ {i}, withUnrouted)

\* C1: every wallet's balance is its opening balance plus the effects of the
\* transactions currently stored (income +amount, expense -amount, transfer
\* with a destination -(amount+fee) on the source and +amount on the
\* destination).
Thm_C1 ==
    \A w \in DOMAIN wallets :
        wallets[w].balance =
            openingBalance[w] + EffectSum(transactions, DOMAIN transactions, w)

\* C1 witness: two transactions are stored, one of them a transfer with a fee
\* between two wallets, and both balances have moved.
Wit_C1 ==
    /\ Cardinality(DOMAIN transactions) = 2
    /\ \E i \in DOMAIN transactions :
           /\ transactions[i].type = "transfer"
           /\ transactions[i].toWalletId \in WalletIds \ {transactions[i].walletId}
           /\ transactions[i].transferFee = 1
    /\ \A w \in WalletIds : wallets[w].balance # openingBalance[w]

\* C2 as stated: the sum of all balances is its starting value plus stored
\* income minus stored expense minus the fees of all stored transfers.
Orig_C2 ==
    BalanceSum(wallets, DOMAIN wallets) =
        OpeningSum(DOMAIN wallets)
        + NetOf(transactions, DOMAIN transactions, TRUE)

\* C2 amended: the sum of all balances is its starting value plus stored
\* income minus stored expense minus the fees of the stored transfers that
\* have a destination (a transfer without one takes no fee).
Thm_C2 ==
    BalanceSum(wallets, DOMAIN wallets) =
        OpeningSum(DOMAIN wallets)
        + NetOf(transactions, DOMAIN transactions, FALSE)

\* C2 witness: a transfer with a fee between two wallets is stored beside an
\* income, so the sum has moved by the income less the fee.
Wit_C2 ==
    /\ \E i, j \in DOMAIN transactions :
           /\ transactions[i].type = "transfer"
           /\ transactions[i].toWalletId \in WalletIds \ {transactions[i].walletId}
           /\ transactions[i].transferFee = 1
           /\ transactions[j].type = "income"
           /\ transactions[j].amount = 2
    /\ BalanceSum(wallets, DOMAIN wallets) = OpeningSum(DOMAIN wallets) + 1

\* C3: an update leaves the balances that deleting the old transaction and
\* creating the patched one leave, whatever properties it changes; an update
\* that changes no property leaves the balances as they are.
Thm_C3 ==
    [][DOMAIN transactions' = DOMAIN transactions =>
          /\ \A id \in DOMAIN transactions :
                 transactions'[id] # transactions[id] =>
                     wallets' = createTx(deleteTx(Here, id), id,
                                         transactions'[id]).wallets
          /\ transactions' = transactions => wallets' = wallets]_vars

\* C3 witness: t1 is an income of 2 that an update can move from A to B, and
\* the update returns A to its balance without the transaction and raises B
\* by 2.
Wit_C3 ==
    /\ "t1" \in DOMAIN transactions
    /\ transactions["t1"].type = "income"
    /\ transactions["t1"].walletId = "A"
    /\ transactions["t1"].amount = 2
    /\ LET data == [walletId |-> {"B"}, type |-> {}, amount |-> {},
                    toWalletId |-> {}, transferFee |-> {}]
           after == updateTx(Here, "t1", data)
       IN  /\ after.wallets["A"].balance = wallets["A"].balance - 2
           /\ after.wallets["B"].balance = wallets["B"].balance + 2
           /\ after.transactions["t1"].walletId = "B"

\* C4: creating any transaction and deleting it at once restores every
\* balance and leaves no row behind.
Thm_C4 ==
    \A id \in TxIds \ DOMAIN transactions, draft \in Drafts :
        deleteTx(createTx(Here, id, draft), id) = Here

\* C4 witness: beside a stored transaction, a transfer with a fee can be
\* created that moves both balances, and deleting it restores them.
Wit_C4 ==
    /\ DOMAIN transactions = {"t1"}
    /\ LET draft == [walletId |-> "A", type |-> "transfer", amount |-> 2,
                     toWalletId |-> "B", transferFee |-> 1]
           made == createTx(Here, "t2", draft)
       IN  /\ made.wallets["A"].balance = wallets["A"].balance - 3
           /\ made.wallets["B"].balance = wallets["B"].balance + 2
           /\ "t2" \in DOMAIN made.transactions
           /\ deleteTx(made, "t2") = Here

\* the balance delta the specification's table gives wallet w for transaction
\* t; unrouted says whether a transfer without destination debits its source
Delta(t, w, unrouted) ==
    IF t.type = "income"
    THEN (IF w = t.walletId THEN t.amount ELSE 0)
    ELSE IF t.type = "expense"
    THEN (IF w = t.walletId THEN -t.amount ELSE 0)
    ELSE IF t.toWalletId # NoWallet \/ unrouted
    THEN (IF w = t.walletId THEN -(t.amount + t.transferFee) ELSE 0)
         + (IF w = t.toWalletId THEN t.amount ELSE 0)
    ELSE 0

Shifted(ws, t, sign, unrouted) ==
    [w \in DOMAIN ws |->
        [ws[w] EXCEPT !.balance = @ + sign * Delta(t, w, unrouted)]]

\* C5 as stated: applying changes the balances by the table's deltas (income
\* +amount, expense -amount, transfer -(amount+fee) on the source and +amount
\* on the destination), reversing by their negation, and nothing else changes.
Orig_C5 ==
    \A t \in Drafts :
        /\ updateWalletBalance(wallets, t) = Shifted(wallets, t, 1, TRUE)
        /\ reverseWalletBalance(wallets, t) = Shifted(wallets, t, -1, TRUE)

\* C5 amended: the same, for income, expense and transfers with a
\* destination; applying or reversing a transfer without a destination
\* changes nothing.
Thm_C5 ==
    \A t \in Drafts :
        /\ updateWalletBalance(wallets, t) = Shifted(wallets, t, 1, FALSE)
        /\ reverseWalletBalance(wallets, t) = Shifted(wallets, t, -1, FALSE)

\* C5 witness: with transactions stored, applying a transfer of 2 with fee 1
\* from A to B takes 3 from A and gives 2 to B, and reversing it does the
\* opposite.
Wit_C5 ==
    /\ Cardinality(DOMAIN transactions) = 2
    /\ LET t == [walletId |-> "A", type |-> "transfer", amount |-> 2,
                 toWalletId |-> "B", transferFee |-> 1]
       IN  /\ updateWalletBalance(wallets, t)["A"].balance
                  = wallets["A"].balance - 3
           /\ updateWalletBalance(wallets, t)["B"].balance
                  = wallets["B"].balance + 2
           /\ reverseWalletBalance(wallets, t)["A"].balance
                  = wallets["A"].balance + 3
           /\ reverseWalletBalance(wallets, t)["B"].balance
                  = wallets["B"].balance - 2

----------------------------------------------------------------------------
(* TransactionService statement by statement: every action is one awaited  *)
(* storage statement of the one call in flight, a read can run between any *)
(* two of them, and any statement can throw.  The service opens no         *)
(* database transaction, so a statement that has run stays.                *)

MaxFailures == 1
StepIds == {"t1"}
StepDrafts ==
    {draft \in Drafts :
        /\ draft.amount = 1
        /\ draft.walletId = "A"
        /\ draft.toWalletId \in {NoWallet, "B"}}
StepPatches ==
    {data \in Patches :
        /\ data.amount \subseteq {1}
        /\ data.walletId \subseteq {"A"}
        /\ data.toWalletId \subseteq {NoWallet, "B"}}

The(o) == CHOOSE v \in o : TRUE

\* the first (or only) UPDATE wallets of updateWalletBalance / reverseWalletBalance
FirstWrite(ws, t, sign) ==
    IF t.type = "income"
    THEN AddToBalance(ws, t.walletId, sign * t.amount)
    ELSE IF t.type = "expense"
    THEN AddToBalance(ws, t.walletId, -sign * t.amount)
    ELSE IF t.type = "transfer" /\ t.toWalletId # NoWallet
    THEN AddToBalance(ws, t.walletId, -sign * (t.amount + t.transferFee))
    ELSE ws

\* the second UPDATE wallets of a transfer with a destination
SecondWrite(ws, t, sign) == AddToBalance(ws, t.toWalletId, sign * t.amount)

TwoWrites(t) == t.type = "transfer" /\ t.toWalletId # NoWallet

\* SELECT COALESCE(SUM(balance), 0) FROM wallets
\* WHERE is_active AND type != 'credit_card'
RECURSIVE SumBalances(_, _)
SumBalances(ws, ids) ==
    IF ids = {}
    THEN 0
    ELSE LET w == CHOOSE w \in ids : TRUE
         IN  ws[w].balance + SumBalances(ws, ids \ {w})

getTotalBalance(ws) ==
    SumBalances(ws, {w \in DOMAIN ws :
                        ws[w].isActive /\ ws[w].type # "credit_card"})

\* create: INSERT INTO transactions ... RETURNING
CreateInsert(id, draft) ==
    /\ pc = "idle"
    /\ id \notin DOMAIN transactions
    /\ transactions' = InsertTx(transactions, id, draft)
    /\ call' = [op |-> "create", id |-> id, old |-> {}, new |-> {draft}]
    /\ before' = Store(wallets, transactions)
    /\ pc' = "apply"
    /\ UNCHANGED <<wallets, openingBalance, seen, failures, aside>>

\* the row UPDATE transactions ... RETURNING gives update(id, data), if any
Returned(id, data) ==
    IF id \in DOMAIN transactions
    THEN {SetRow(transactions[id], data)}
    ELSE {}

\* update: getById(id); updated is what the later UPDATE returns
UpdateLoad(id, updated) ==
    /\ pc = "idle"
    /\ call' = [op |-> "update", id |-> id,
                old |-> IF id \in DOMAIN transactions
                        THEN {transactions[id]} ELSE {},
                new |-> updated]
    /\ before' = Store(wallets, transactions)
    /\ pc' = IF id \in DOMAIN transactions THEN "reverse" ELSE "set"
    /\ UNCHANGED <<wallets, transactions, openingBalance, seen, failures, aside>>

\* a delete that rejects an id that is not stored
DeleteLoad_strict(id) ==
    /\ pc = "idle"
    /\ call' = [op |-> "delete", id |-> id,
                old |-> IF id \in DOMAIN transactions
                        THEN {transactions[id]} ELSE {},
                new |-> {}]
    /\ before' = Store(wallets, transactions)
    /\ pc' = IF id \in DOMAIN transactions THEN "reverse" ELSE "failed"
    /\ UNCHANGED <<wallets, transactions, openingBalance, seen, failures, aside>>

\* delete: getById(id)
DeleteLoad(id) ==
    /\ pc = "idle"
    /\ call' = [op |-> "delete", id |-> id,
                old |-> IF id \in DOMAIN transactions
                        THEN {transactions[id]} ELSE {},
                new |-> {}]
    /\ before' = Store(wallets, transactions)
    /\ pc' = IF id \in DOMAIN transactions THEN "reverse" ELSE "remove"
    /\ UNCHANGED <<wallets, transactions, openingBalance, seen, failures, aside>>

AfterReverse == IF call.op = "update" THEN "set" ELSE "remove"

\* reverseWalletBalance(oldTransaction): its first statement
ReverseFirst ==
    /\ pc = "reverse"
    /\ wallets' = FirstWrite(wallets, The(call.old), -1)
    /\ pc' = IF TwoWrites(The(call.old)) THEN "reverseSecond" ELSE AfterReverse
    /\ UNCHANGED <<transactions, openingBalance, call, before, seen, failures, aside>>

\* reverseWalletBalance(oldTransaction): the destination of a transfer
ReverseSecond ==
    /\ pc = "reverseSecond"
    /\ wallets' = SecondWrite(wallets, The(call.old), -1)
    /\ pc' = AfterReverse
    /\ UNCHANGED <<transactions, openingBalance, call, before, seen, failures, aside>>

\* an update that resolves when the UPDATE matched no row
SetTx_tolerant ==
    /\ pc = "set"
    /\ IF call.new = {}
       THEN /\ pc' = "done"
            /\ UNCHANGED transactions
       ELSE /\ transactions' = [transactions EXCEPT ![call.id] = The(call.new)]
            /\ pc' = "apply"
    /\ UNCHANGED <<wallets, openingBalance, call, before, seen, failures, aside>>

\* update: UPDATE transactions SET ...data WHERE id = id RETURNING; with no
\* such row, updated is undefined and updateWalletBalance(updated) throws
SetTx ==
    /\ pc = "set"
    /\ IF call.new = {}
       THEN /\ pc' = "failed"
            /\ UNCHANGED transactions
       ELSE /\ transactions' = [transactions EXCEPT ![call.id] = The(call.new)]
            /\ pc' = "apply"
    /\ UNCHANGED <<wallets, openingBalance, call, before, seen, failures, aside>>

\* updateWalletBalance(transaction): its first statement
ApplyFirst ==
    /\ pc = "apply"
    /\ wallets' = FirstWrite(wallets, The(call.new), 1)
    /\ pc' = IF TwoWrites(The(call.new)) THEN "applySecond" ELSE "done"
    /\ UNCHANGED <<transactions, openingBalance, call, before, seen, failures, aside>>

\* updateWalletBalance(transaction): the destination of a transfer
ApplySecond ==
    /\ pc = "applySecond"
    /\ wallets' = SecondWrite(wallets, The(call.new), 1)
    /\ pc' = "done"
    /\ UNCHANGED <<transactions, openingBalance, call, before, seen, failures, aside>>

\* delete: DELETE FROM transactions WHERE id = id
RemoveStep ==
    /\ pc = "remove"
    /\ transactions' = RemoveTx(transactions, call.id)
    /\ pc' = "done"
    /\ UNCHANGED <<wallets, openingBalance, call, before, seen, failures, aside>>

\* the statement the call is about to run throws: the call rejects, and
\* nothing undoes the statements that ran
Throw ==
    /\ pc \in {"reverse", "reverseSecond", "set", "apply", "applySecond",
               "remove"}
    /\ failures < MaxFailures
    /\ pc' = "failed"
    /\ failures' = failures + 1
    /\ UNCHANGED <<ledgerVars, call, before, seen, aside>>

\* the call resolves or rejects
Return ==
    /\ pc \in {"done", "failed"}
    /\ pc' = "idle"
    /\ call' = NoCall
    /\ UNCHANGED <<ledgerVars, before, seen, failures, aside>>

\* WalletService.getTotalBalance(), as getDashboardSummary runs it
ReadTotal ==
    /\ seen' = {getTotalBalance(wallets)}
    /\ UNCHANGED <<ledgerVars, pc, call, before, failures, aside>>

\* the ids update and delete are called with: "t2" is never stored
StepCallIds == StepIds \cup {"t2"}

NextSteps ==
    \/ \E id \in StepIds, draft \in StepDrafts : CreateInsert(id, draft)
    \/ \E id \in StepCallIds :
          \E updated \in {Returned(id, data) : data \in StepPatches} :
             UpdateLoad(id, updated)
    \/ \E id \in StepCallIds : DeleteLoad(id)
    \/ ReverseFirst
    \/ ReverseSecond
    \/ SetTx
    \/ ApplyFirst
    \/ ApplySecond
    \/ RemoveStep
    \/ Throw
    \/ Return
    \/ ReadTotal

SpecSteps == Init /\ [][NextSteps]_vars

\* the store the call in flight leaves when every statement of it has run
After ==
    IF call.op = "create"
    THEN createTx(before, call.id, The(call.new))
    ELSE IF call.op = "update" /\ call.new # {}
    THEN reverseAndApply(before, call.id, The(call.new))
    ELSE IF call.op = "delete"
    THEN deleteTx(before, call.id)
    ELSE before

\* C6: a call that failed leaves the store as it was when the call began.
Orig_C6 == pc = "failed" => Store(wallets, transactions) = before

\* C7: a getTotalBalance() that runs while a call is in flight returns the
\* total of the store before the call or of the store after it.
Orig_C7 ==
    [][(ReadTotal /\ pc # "idle") =>
          seen' \subseteq {getTotalBalance(before.wallets),
                           getTotalBalance(After.wallets)}]_vars

----------------------------------------------------------------------------
(* Claims about the debt tracker.                                          *)

\* the sum of the amounts of the payments stored for a record
Paid(id) ==
    SumPayments(lendBorrowPayments, getPayments(lendBorrowPayments, id))

NoNegativePayment(id) ==
    \A p \in getPayments(lendBorrowPayments, id) :
        lendBorrowPayments[p].amount >= 0

OnlyPositivePayments(id) ==
    \A p \in getPayments(lendBorrowPayments, id) :
        lendBorrowPayments[p].amount > 0

\* the status the data model derives from remaining_amount and amount
StatusMatches(r) ==
    /\ r.remainingAmount = 0 => r.status = "completed"
    /\ (0 < r.remainingAmount /\ r.remainingAmount < r.amount)
           => r.status = "partial"
    /\ r.remainingAmount = r.amount => r.status = "pending"

\* C8: a record created without an explicit remaining amount, whose stored
\* payments are all positive, has remaining_amount = max(0, amount - sum of
\* its stored payments), after any sequence of addPayment and deletePayment.
Thm_C8 ==
    \A id \in DOMAIN lendBorrow :
        (requested[id] = {} /\ OnlyPositivePayments(id)) =>
            lendBorrow[id].remainingAmount =
                Max(0, lendBorrow[id].amount - Paid(id))

\* C8 witness: a record created without a remaining amount has been overpaid
\* by two positive payments and its remaining amount stands at 0, beside a
\* second record with nothing paid.
Wit_C8 ==
    /\ DOMAIN lendBorrow = LendIds
    /\ requested["L1"] = {}
    /\ lendBorrow["L1"].amount = 3
    /\ getPayments(lendBorrowPayments, "L1") = PaymentIds
    /\ OnlyPositivePayments("L1")
    /\ Paid("L1") = 4
    /\ lendBorrow["L1"].remainingAmount = 0

\* C9 as stated: in every state reachable by create, addPayment and
\* deletePayment, a record is completed if its remaining amount is 0, partial
\* if it is between 0 and the amount, pending if it equals the amount.
Orig_C9 == \A id \in DOMAIN lendBorrow : StatusMatches(lendBorrow[id])

\* C9 amended: the same, for a record of positive amount created without an
\* explicit remaining amount or status and with no negative payment among its
\* stored payments.
Thm_C9 ==
    \A id \in DOMAIN lendBorrow :
        (requested[id] = {} /\ NoNegativePayment(id)) =>
            StatusMatches(lendBorrow[id])

\* C9 witness: a record created without a remaining amount was completed by
\* its payments and is partial again after one of them was deleted.
Wit_C9 ==
    /\ "L1" \in DOMAIN lendBorrow
    /\ requested["L1"] = {}
    /\ lendBorrow["L1"].amount = 3
    /\ getPayments(lendBorrowPayments, "L1") = {"p1"}
    /\ lendBorrowPayments["p1"].amount = 1
    /\ lendBorrow["L1"].status = "partial"
    /\ lendBorrow["L1"].remainingAmount = 2
    /\ LET d == deletePayment(Debts(lendBorrow, lendBorrowPayments), "p1")
       IN  /\ d.lendBorrow["L1"].status = "pending"
           /\ d.lendBorrow["L1"].remainingAmount = 3

Rank(status) ==
    IF status = "pending" THEN 0 ELSE IF status = "partial" THEN 1 ELSE 2

\* what C10 says of one record across a step: lb and pays are the tables
\* before the step, lb2 and pays2 after it
Forward(id, lb, lb2, pays2) ==
    LET paid == SumPayments(pays2, getPayments(pays2, id))
        r == lb2[id]
    IN  /\ id \in DOMAIN lb =>
               /\ Rank(r.status) >= Rank(lb[id].status)
               /\ r.remainingAmount <= lb[id].remainingAmount
        /\ getPayments(pays2, id) = {} => r.status = "pending"
        /\ (getPayments(pays2, id) # {} /\ r.remainingAmount > 0)
               => r.status = "partial"
        /\ r.status = "completed" <=> paid >= r.amount

\* C10 as stated: under append-only positive payments every record's status
\* only moves forward: pending before any payment, partial from the first
\* payment that leaves remaining > 0, completed exactly when the payments sum
\* to at least the amount, and the remaining amount never increases.
Orig_C10 ==
    [][\A id \in DOMAIN lendBorrow' :
          Forward(id, lendBorrow, lendBorrow', lendBorrowPayments')]_vars

\* C10 amended: the same, for every record of positive amount created
\* without an explicit remaining amount or status.
Thm_C10 ==
    [][\A id \in DOMAIN lendBorrow' :
          requested'[id] = {} =>
              Forward(id, lendBorrow, lendBorrow', lendBorrowPayments')]_vars

\* C10 witness: a record of 3 created without a remaining amount has been
\* paid 1 and then 2 (or 2 and then 1) and stands completed at 0.
Wit_C10 ==
    /\ "L1" \in DOMAIN lendBorrow
    /\ requested["L1"] = {}
    /\ lendBorrow["L1"].amount = 3
    /\ getPayments(lendBorrowPayments, "L1") = PaymentIds
    /\ Paid("L1") = 3
    /\ lendBorrow["L1"].status = "completed"
    /\ lendBorrow["L1"].remainingAmount = 0

\* payment ids as crypto.randomUUID() keeps giving them: the ids of the model
\* and further ones for calls that go on from a state of the model
PaymentUuids == PaymentIds \cup {"p3", "p4", "p5"}

Statuses == {"pending", "partial", "completed"}

\* the stores one addPayment (of a positive amount) or one deletePayment on
\* the record leads to
Moves(d, id) ==
    {addPayment(d, id, CHOOSE p \in PaymentUuids \ DOMAIN d.payments : TRUE,
                amount) : amount \in PositivePayAmounts}
    \cup {deletePayment(d, p) : p \in getPayments(d.payments, id)}

\* the stores at most k such calls lead to
RECURSIVE Within(_, _, _)
Within(d, id, k) ==
    IF k = 0
    THEN {d}
    ELSE LET near == Within(d, id, k - 1)
         IN  near \cup UNION {Moves(x, id) : x \in near}

\* enough calls to delete every payment of the model and add one
SearchDepth == Cardinality(PaymentIds) + 1

\* C11: from every state of a record, whatever its status, some sequence of
\* addPayment / deletePayment calls leads to each status (a record of amount 1
\* has no partial state in whole units), and the deletePayment that removes
\* the last payment of a record leaves it pending with remaining = amount.
Thm_C11 ==
    \A id \in DOMAIN lendBorrow :
        LET d == Debts(lendBorrow, lendBorrowPayments)
            reached == {x.lendBorrow[id].status :
                           x \in Within(d, id, SearchDepth)}
        IN  /\ {"pending", "completed"} \subseteq reached
            /\ lendBorrow[id].amount >= 2 => Statuses \subseteq reached
            /\ \A p \in DOMAIN lendBorrowPayments :
                   getPayments(lendBorrowPayments, id) = {p} =>
                       LET r == deletePayment(d, p).lendBorrow[id]
                       IN  /\ r.status = "pending"
                           /\ r.remainingAmount = r.amount

\* C11 witness: a record created with a remaining amount of 1 out of 3 stands
\* pending at 3 with no payment: its payments were deleted, which is the only
\* way its remaining amount gets back to the amount.
Wit_C11 ==
    /\ "L1" \in DOMAIN lendBorrow
    /\ requested["L1"] = {1}
    /\ lendBorrow["L1"].amount = 3
    /\ getPayments(lendBorrowPayments, "L1") = {}
    /\ lendBorrow["L1"].status = "pending"
    /\ lendBorrow["L1"].remainingAmount = 3

----------------------------------------------------------------------------
(* BudgetService, as functions of the budgets table.  A budget id stands   *)
(* for the uuid of the row: rows are numbered as they are inserted.        *)

MaxBudgets == 4     \* the budgets table holds at most MaxBudgets rows

Categories == {"food", "rent"}
BudgetPeriods == {<<1, 2024>>, <<1, 2025>>, <<2, 2025>>}   \* <<month, year>>
BudgetAmounts == {1, 2}
PeriodKinds == {"monthly", "yearly"}

MinOf(S) == CHOOSE x \in S : \A y \in S : x <= y
MaxOf(S) == CHOOSE x \in S : \A y \in S : x >= y

\* what an operation gives back: the table and the returned row ids
Outcome(bs, ids) == [budgets |-> bs, result |-> ids]

\* create(budget): the table with the row inserted under a fresh id
freshBudgetId(bs) == IF DOMAIN bs = {} THEN 1 ELSE MaxOf(DOMAIN bs) + 1

createBudget(bs, budget) ==
    Outcome([i \in DOMAIN bs \cup {freshBudgetId(bs)} |->
                IF i \in DOMAIN bs THEN bs[i] ELSE budget],
            {freshBudgetId(bs)})

\* getByPeriod(month, year)
getByPeriod(bs, month, year) ==
    {i \in DOMAIN bs : bs[i].month = month /\ bs[i].year = year}

\* mutant of getByCategoryAndPeriod: month and year are compared crosswise
getByCategoryAndPeriod_swapped(bs, categoryId, month, year) ==
    LET found == {i \in DOMAIN bs : /\ bs[i].categoryId = categoryId
                                    /\ bs[i].month = year
                                    /\ bs[i].year = month}
    IN  IF found = {} THEN {} ELSE {MinOf(found)}

\* getByCategoryAndPeriod(categoryId, month, year): the first matching row
\* (limit 1), {} when there is none
getByCategoryAndPeriod(bs, categoryId, month, year) ==
    LET found == {i \in DOMAIN bs : /\ bs[i].categoryId = categoryId
                                    /\ bs[i].month = month
                                    /\ bs[i].year = year}
    IN  IF found = {} THEN {} ELSE {MinOf(found)}

\* mutant of upsertBudget: a row is inserted whether or not one exists
upsertBudget_alwaysCreate(bs, categoryId, amount, month, year) ==
    createBudget(bs, [categoryId |-> categoryId, amount |-> amount,
                      period |-> "monthly", month |-> month, year |-> year])

\* upsertBudget(categoryId, amount, month, year)
upsertBudget(bs, categoryId, amount, month, year) ==
    LET existing == getByCategoryAndPeriod(bs, categoryId, month, year)
    IN  IF existing # {}
        THEN Outcome([bs EXCEPT ![The(existing)].amount = amount], existing)
        ELSE createBudget(bs, [categoryId |-> categoryId, amount |-> amount,
                               period |-> "monthly",
                               month |-> month, year |-> year])

\* mutant of CopyOne: an existing target budget takes the source's amount
CopyOne_overwrite(acc, sourceBudget, toMonth, toYear) ==
    LET existing == getByCategoryAndPeriod(acc.budgets, sourceBudget.categoryId,
                                           toMonth, toYear)
    IN  IF existing = {}
        THEN LET made == createBudget(acc.budgets,
                             [categoryId |-> sourceBudget.categoryId,
                              amount |-> sourceBudget.amount,
                              period |-> sourceBudget.period,
                              month |-> toMonth, year |-> toYear])
             IN  Outcome(made.budgets, acc.result \cup made.result)
        ELSE Outcome([acc.budgets EXCEPT
                         ![The(existing)].amount = sourceBudget.amount],
                     acc.result)

\* copyBudgets: the body of the loop for one source budget; acc holds the
\* table and newBudgets so far
CopyOne(acc, sourceBudget, toMonth, toYear) ==
    LET existing == getByCategoryAndPeriod(acc.budgets, sourceBudget.categoryId,
                                           toMonth, toYear)
    IN  IF existing = {}
        THEN LET made == createBudget(acc.budgets,
                             [categoryId |-> sourceBudget.categoryId,
                              amount |-> sourceBudget.amount,
                              period |-> sourceBudget.period,
                              month |-> toMonth, year |-> toYear])
             IN  Outcome(made.budgets, acc.result \cup made.result)
        ELSE acc

\* copyBudgets: the loop over sourceBudgets, in the order the rows were
\* inserted
RECURSIVE CopyEach(_, _, _, _, _)
CopyEach(acc, sourceBudgets, todo, toMonth, toYear) ==
    IF todo = {}
    THEN acc
    ELSE LET i == MinOf(todo)
         IN  CopyEach(CopyOne(acc, sourceBudgets[i], toMonth, toYear),
                      sourceBudgets, todo \ {i}, toMonth, toYear)

\* copyBudgets(fromMonth, fromYear, toMonth, toYear)
copyBudgets(bs, fromMonth, fromYear, toMonth, toYear) ==
    CopyEach(Outcome(bs, {}), bs, getByPeriod(bs, fromMonth, fromYear),
             toMonth, toYear)

----------------------------------------------------------------------------
(* The budgets as a state machine: one action per service call.            *)

UpsertBudget(categoryId, amount, month, year) ==
    /\ budgets' = upsertBudget(budgets, categoryId, amount, month, year).budgets
    /\ Cardinality(DOMAIN budgets') <= MaxBudgets
    /\ UNCHANGED <<billReminders, notPlan>>

CopyBudgets(from, to) ==
    /\ budgets' = copyBudgets(budgets, from[1], from[2], to[1], to[2]).budgets
    /\ Cardinality(DOMAIN budgets') <= MaxBudgets
    /\ UNCHANGED <<billReminders, notPlan>>

\* BudgetService.create, by a caller that creates a budget only for a
\* category and period that have none
CreateBudget(budget) ==
    /\ getByCategoryAndPeriod(budgets, budget.categoryId,
                              budget.month, budget.year) = {}
    /\ budgets' = createBudget(budgets, budget).budgets
    /\ Cardinality(DOMAIN budgets') <= MaxBudgets
    /\ UNCHANGED <<billReminders, notPlan>>

NextBudget ==
    \/ \E c \in Categories, amount \in BudgetAmounts, when \in BudgetPeriods :
           UpsertBudget(c, amount, when[1], when[2])
    \/ \E from \in BudgetPeriods, to \in BudgetPeriods : CopyBudgets(from, to)

\* upsertBudget and copyBudgets in any order
SpecBudget == Init /\ [][NextBudget]_vars

\* the table keeps room for one more row
Roomy == Cardinality(DOMAIN budgets') < MaxBudgets

NextBudgetAll ==
    \/ \E c \in Categories, amount \in BudgetAmounts, when \in BudgetPeriods :
           UpsertBudget(c, amount, when[1], when[2]) /\ Roomy
    \/ \E from \in BudgetPeriods, to \in BudgetPeriods :
           CopyBudgets(from, to) /\ Roomy
    \/ \E c \in Categories, amount \in BudgetAmounts, when \in BudgetPeriods,
          kind \in PeriodKinds :
           CreateBudget([categoryId |-> c, amount |-> amount, period |-> kind,
                         month |-> when[1], year |-> when[2]]) /\ Roomy

\* the same with budgets of either period kind created directly
SpecBudgetAll == Init /\ [][NextBudgetAll]_vars

----------------------------------------------------------------------------
(* Claims about the budgets.                                               *)

\* the rows of a table for a category and period
RowsFor(bs, categoryId, month, year) ==
    {i \in DOMAIN bs : /\ bs[i].categoryId = categoryId
                       /\ bs[i].month = month
                       /\ bs[i].year = year}

\* C12: after any sequence of upsertBudget and copyBudgets calls there is at
\* most one budget row for each (category, month, year).
Thm_C12 ==
    \A c \in Categories, when \in BudgetPeriods :
        Cardinality(RowsFor(budgets, c, when[1], when[2])) <= 1

\* C12 witness: the table is full, two of its rows made by upsertBudget and
\* two copied into another period.
Wit_C12 ==
    /\ Cardinality(DOMAIN budgets) = MaxBudgets
    /\ \E from \in BudgetPeriods, to \in BudgetPeriods :
           /\ from # to
           /\ getByPeriod(budgets, from[1], from[2]) = {1, 2}
           /\ getByPeriod(budgets, to[1], to[2]) = {3, 4}
           /\ \A i \in {1, 2} :
                  /\ budgets[i + 2].categoryId = budgets[i].categoryId
                  /\ budgets[i + 2].amount = budgets[i].amount

\* C13: upsertBudget(category, a1, month, year) and then upsertBudget(category,
\* a2, month, year) leave exactly one row for that category and period, with
\* amount a2 and the id the first call returned, and every other row as it
\* was.
Thm_C13 ==
    \A c \in Categories, when \in BudgetPeriods,
       a1 \in BudgetAmounts, a2 \in BudgetAmounts :
        LET first == upsertBudget(budgets, c, a1, when[1], when[2])
            second == upsertBudget(first.budgets, c, a2, when[1], when[2])
            others == DOMAIN budgets \ RowsFor(budgets, c, when[1], when[2])
        IN  /\ RowsFor(second.budgets, c, when[1], when[2]) = first.result
            /\ Cardinality(first.result) = 1
            /\ second.result = first.result
            /\ second.budgets[The(first.result)].amount = a2
            /\ DOMAIN second.budgets = DOMAIN budgets \cup first.result
            /\ \A i \in others : second.budgets[i] = budgets[i]

\* C13 witness: upsertBudget has made the food budget of January 2025 with
\* amount 1 beside a rent budget and a food budget of another period; the
\* second upsertBudget sets that row to 2.
Wit_C13 ==
    /\ DOMAIN budgets = {1, 2, 3}
    /\ RowsFor(budgets, "food", 1, 2025) = {2}
    /\ budgets[2].amount = 1
    /\ budgets[1].categoryId = "rent"
    /\ budgets[3].categoryId = "food"
    /\ LET second == upsertBudget(budgets, "food", 2, 1, 2025)
       IN  /\ second.result = {2}
           /\ second.budgets = [budgets EXCEPT ![2].amount = 2]

\* the row copyBudgets makes of a source budget in the target period
CopyOf(sourceBudget, toMonth, toYear) ==
    [categoryId |-> sourceBudget.categoryId, amount |-> sourceBudget.amount,
     period |-> sourceBudget.period, month |-> toMonth, year |-> toYear]

\* C14: copyBudgets(from, to) creates a target-period budget with the
\* category, amount and period kind of the source, once for each source
\* budget whose category has no budget in the target period and for no other;
\* it leaves every budget that existed as it was, returns exactly the rows it
\* created, and called again at once creates and returns nothing.
Thm_C14 ==
    \A from \in BudgetPeriods, to \in BudgetPeriods :
        LET out == copyBudgets(budgets, from[1], from[2], to[1], to[2])
            again == copyBudgets(out.budgets, from[1], from[2], to[1], to[2])
            missing ==
                {i \in getByPeriod(budgets, from[1], from[2]) :
                    RowsFor(budgets, budgets[i].categoryId, to[1], to[2]) = {}}
        IN  /\ \A i \in DOMAIN budgets :
                   i \in DOMAIN out.budgets /\ out.budgets[i] = budgets[i]
            /\ out.result = DOMAIN out.budgets \ DOMAIN budgets
            /\ Cardinality(out.result) = Cardinality(missing)
            /\ \A i \in missing :
                   \E j \in out.result :
                       out.budgets[j] = CopyOf(budgets[i], to[1], to[2])
            /\ again.result = {}
            /\ again.budgets = out.budgets

\* C14 witness: January 2025 holds a yearly food budget and a monthly rent
\* budget, February 2025 a rent budget of another amount; copying January to
\* February makes the food budget only and leaves the rent budget alone.
Wit_C14 ==
    /\ DOMAIN budgets = {1, 2, 3}
    /\ \E i \in {1, 2, 3}, j \in {1, 2, 3}, k \in {1, 2, 3} :
           /\ budgets[i] = [categoryId |-> "food", amount |-> 2,
                            period |-> "yearly", month |-> 1, year |-> 2025]
           /\ budgets[j] = [categoryId |-> "rent", amount |-> 1,
                            period |-> "monthly", month |-> 1, year |-> 2025]
           /\ budgets[k] = [categoryId |-> "rent", amount |-> 2,
                            period |-> "monthly", month |-> 2, year |-> 2025]
           /\ LET out == copyBudgets(budgets, 1, 2025, 2, 2025)
              IN  /\ out.result = {4}
                  /\ out.budgets[4] = CopyOf(budgets[i], 2, 2025)
                  /\ out.budgets[k] = budgets[k]

----------------------------------------------------------------------------
(* BillReminderService.  due_date and reminder_date are timestamps, here   *)
(* counted in days from 2024-01-01; createNextRecurring turns the          *)
(* timestamp into a calendar date, moves it as Date.setMonth and           *)
(* Date.setFullYear do, and turns it back.  A reminder id stands for the   *)
(* uuid of the row: rows are numbered as they are inserted.                *)

MaxReminders == 3   \* the bill_reminders table holds at most MaxReminders rows

Null == "null"      \* a column that IS NULL, a parameter that is left out

IsLeap(y) == (y % 4 = 0 /\ y % 100 # 0) \/ y % 400 = 0

DaysInMonth(y, m) ==
    IF m = 2
    THEN IF IsLeap(y) THEN 29 ELSE 28
    ELSE IF m \in {4, 6, 9, 11} THEN 30 ELSE 31

\* new Date(year, month, day): a month past December runs into the next
\* year, a day past the end of the month runs into the next month
RECURSIVE Normalize(_, _, _)
Normalize(y, m, d) ==
    IF m > 12
    THEN Normalize(y + 1, m - 12, d)
    ELSE IF d > DaysInMonth(y, m)
    THEN Normalize(y, m + 1, d - DaysInMonth(y, m))
    ELSE [year |-> y, month |-> m, day |-> d]

\* new Date(timestamp)
toDate(ts) == Normalize(2024, 1, ts + 1)

\* the days from 2024-01-01 to the first day of a month
RECURSIVE DaysBefore(_, _)
DaysBefore(y, m) ==
    IF y = 2024 /\ m = 1
    THEN 0
    ELSE IF m = 1
    THEN DaysBefore(y - 1, 12) + 31
    ELSE DaysBefore(y, m - 1) + DaysInMonth(y, m - 1)

\* date.getTime()
getTime(date) == DaysBefore(date.year, date.month) + date.day - 1

\* date.setMonth(month), date.setFullYear(year)
setMonth(date, month) == Normalize(date.year, month, date.day)
setFullYear(date, year) == Normalize(year, date.month, date.day)

Frequencies == {Null, "monthly", "yearly", "weekly"}
DueDates ==
    {getTime([year |-> 2024, month |-> 3, day |-> 15]),
     getTime([year |-> 2024, month |-> 1, day |-> 31]),
     getTime([year |-> 2024, month |-> 2, day |-> 29]),
     getTime([year |-> 2024, month |-> 12, day |-> 15])}
LeadDays == {3}
BillTransactionIds == {"t1"}

\* the reminders BillReminderService.create is called with
BillDrafts ==
    {[title |-> "rent", amount |-> 500, categoryId |-> "bills",
      walletId |-> "A", dueDate |-> due,
      reminderDate |-> IF lead = {} THEN {} ELSE {due - The(lead)},
      isRecurring |-> rec, frequency |-> f,
      isPaid |-> FALSE, transactionId |-> Null] :
        due \in DueDates, lead \in Opt(LeadDays), rec \in BOOLEAN,
        f \in Frequencies}

\* what an operation gives back: the table, and whether the call threw
Bills(rs, failed) == [billReminders |-> rs, failed |-> failed]

freshReminderId(rs) == IF DOMAIN rs = {} THEN 1 ELSE MaxOf(DOMAIN rs) + 1

\* create(reminder)
createReminder(rs, reminder) ==
    [i \in DOMAIN rs \cup {freshReminderId(rs)} |->
        IF i \in DOMAIN rs THEN rs[i] ELSE reminder]

\* mutant of createNextRecurring: a frequency that is neither monthly nor
\* yearly still spawns a successor, due on the same date
createNextRecurring_noDefault(rs, reminder) ==
    IF ~reminder.isRecurring \/ reminder.frequency = Null
    THEN rs
    ELSE LET due == toDate(reminder.dueDate)
             nextDueDate ==
                 IF reminder.frequency = "monthly"
                 THEN getTime(setMonth(due, due.month + 1))
                 ELSE IF reminder.frequency = "yearly"
                 THEN getTime(setFullYear(due, due.year + 1))
                 ELSE reminder.dueDate
             nextReminderDate ==
                 IF reminder.reminderDate # {}
                 THEN {nextDueDate -
                          (reminder.dueDate - The(reminder.reminderDate))}
                 ELSE {}
         IN  createReminder(rs,
                 [title |-> reminder.title, amount |-> reminder.amount,
                  categoryId |-> reminder.categoryId,
                  walletId |-> reminder.walletId,
                  dueDate |-> nextDueDate,
                  reminderDate |-> nextReminderDate,
                  isRecurring |-> TRUE, frequency |-> reminder.frequency,
                  isPaid |-> FALSE, transactionId |-> Null])

\* createNextRecurring(reminder)
createNextRecurring(rs, reminder) ==
    IF ~reminder.isRecurring \/ reminder.frequency = Null
    THEN rs
    ELSE IF reminder.frequency \notin {"monthly", "yearly"}
    THEN rs
    ELSE LET due == toDate(reminder.dueDate)
             nextDueDate ==
                 IF reminder.frequency = "monthly"
                 THEN getTime(setMonth(due, due.month + 1))
                 ELSE getTime(setFullYear(due, due.year + 1))
             nextReminderDate ==
                 IF reminder.reminderDate # {}
                 THEN {nextDueDate -
                          (reminder.dueDate - The(reminder.reminderDate))}
                 ELSE {}
         IN  createReminder(rs,
                 [title |-> reminder.title, amount |-> reminder.amount,
                  categoryId |-> reminder.categoryId,
                  walletId |-> reminder.walletId,
                  dueDate |-> nextDueDate,
                  reminderDate |-> nextReminderDate,
                  isRecurring |-> TRUE, frequency |-> reminder.frequency,
                  isPaid |-> FALSE, transactionId |-> Null])

\* markAsPaid(id, transactionId?): transactionId is {} when it is left out
markAsPaid(rs, id, transactionId) ==
    IF id \notin DOMAIN rs
    THEN Bills(rs, TRUE)
    ELSE LET reminder == rs[id]
             updated == [rs EXCEPT
                            ![id].isPaid = TRUE,
                            ![id].transactionId =
                                IF transactionId = {} THEN Null
                                ELSE The(transactionId)]
         IN  Bills(IF reminder.isRecurring /\ reminder.frequency # Null
                   THEN createNextRecurring(updated, reminder)
                   ELSE updated,
                   FALSE)

----------------------------------------------------------------------------
(* The bill reminders as a state machine: one action per service call.     *)

\* create(reminder), for the first two rows of the table: the further rows
\* are successors
CreateReminder(reminder) ==
    /\ DOMAIN billReminders \subseteq {1}
    /\ billReminders' = createReminder(billReminders, reminder)
    /\ UNCHANGED <<budgets, notPlan>>

MarkAsPaid(id, transactionId) ==
    /\ billReminders' = markAsPaid(billReminders, id, transactionId).billReminders
    /\ Cardinality(DOMAIN billReminders') <= MaxReminders
    /\ UNCHANGED <<budgets, notPlan>>

NextBills ==
    \/ \E reminder \in BillDrafts : CreateReminder(reminder)
    \/ \E id \in 1..MaxReminders, transactionId \in Opt(BillTransactionIds) :
           MarkAsPaid(id, transactionId)

SpecBills == Init /\ [][NextBills]_vars

----------------------------------------------------------------------------
(* Claims about the bill reminders.                                        *)

\* C15: markAsPaid(id, transactionId?) on a stored reminder sets isPaid and
\* sets transactionId to the given id, or to null when none is given, and
\* leaves every other stored reminder as it was; it adds exactly one reminder
\* when the reminder is recurring with frequency monthly or yearly and none
\* otherwise; on an id that is not stored it throws and changes nothing.
Thm_C15 ==
    \A id \in 1..(MaxReminders + 1), transactionId \in Opt(BillTransactionIds) :
        LET out == markAsPaid(billReminders, id, transactionId)
            rows == out.billReminders
            added == DOMAIN rows \ DOMAIN billReminders
        IN  IF id \notin DOMAIN billReminders
            THEN out.failed /\ rows = billReminders
            ELSE /\ ~out.failed
                 /\ DOMAIN billReminders \subseteq DOMAIN rows
                 /\ rows[id] =
                        [billReminders[id] EXCEPT
                            !.isPaid = TRUE,
                            !.transactionId =
                                IF transactionId = {} THEN Null
                                ELSE The(transactionId)]
                 /\ \A i \in DOMAIN billReminders \ {id} :
                        rows[i] = billReminders[i]
                 /\ Cardinality(added) =
                        IF /\ billReminders[id].isRecurring
                           /\ billReminders[id].frequency
                                  \in {"monthly", "yearly"}
                        THEN 1 ELSE 0

\* C15 witness: a recurring monthly reminder was marked paid with a
\* transaction id and its successor stands unpaid behind it, beside a
\* reminder with the frequency weekly that was marked paid and has none.
Wit_C15 ==
    /\ DOMAIN billReminders = {1, 2, 3}
    /\ billReminders[1].isRecurring /\ billReminders[1].frequency = "monthly"
    /\ billReminders[1].isPaid /\ billReminders[1].transactionId = "t1"
    /\ billReminders[2].isRecurring /\ billReminders[2].frequency = "weekly"
    /\ billReminders[2].isPaid /\ billReminders[2].transactionId = Null
    /\ ~billReminders[3].isPaid /\ billReminders[3].frequency = "monthly"
    /\ billReminders[3].dueDate > billReminders[1].dueDate

\* a calendar date one period later: the same day of the next month (of the
\* same month of the next year), or the last day of that month if it is
\* shorter
OnePeriodLater(date, frequency) ==
    LET y == IF frequency = "yearly" \/ date.month = 12
             THEN date.year + 1 ELSE date.year
        m == IF frequency = "yearly" THEN date.month
             ELSE IF date.month = 12 THEN 1 ELSE date.month + 1
    IN  [year |-> y, month |-> m,
         day |-> IF date.day > DaysInMonth(y, m)
                 THEN DaysInMonth(y, m) ELSE date.day]

\* C16: the successor of a recurring monthly or yearly reminder that is marked
\* paid is due one period after the original, reminds as long before its due
\* date as the original did (not at all if the original did not), is unpaid,
\* recurring and without transaction, and has the original's frequency, title,
\* amount, category and wallet.
Orig_C16 ==
    \A id \in DOMAIN billReminders :
        LET reminder == billReminders[id]
            rows == markAsPaid(billReminders, id, {}).billReminders
            nextDueDate ==
                getTime(OnePeriodLater(toDate(reminder.dueDate),
                                       reminder.frequency))
        IN  (reminder.isRecurring /\ reminder.frequency \in {"monthly", "yearly"})
            => /\ freshReminderId(billReminders) \in DOMAIN rows
               /\ rows[freshReminderId(billReminders)] =
                      [reminder EXCEPT
                          !.dueDate = nextDueDate,
                          !.reminderDate =
                              IF reminder.reminderDate = {} THEN {}
                              ELSE {nextDueDate - (reminder.dueDate -
                                        The(reminder.reminderDate))},
                          !.isPaid = FALSE,
                          !.transactionId = Null,
                          !.isRecurring = TRUE]

----------------------------------------------------------------------------
(* Claims about transfers without destination and about ids that are not   *)
(* stored.                                                                 *)

\* a transfer whose to_wallet_id is absent
Inert(t) == t.type = "transfer" /\ t.toWalletId = NoWallet

Orig_C18 ==
    \A id \in TxIds \ DOMAIN transactions, draft \in Drafts :
        Inert(draft) =>
            createTx(Here, id, draft).wallets =
                AddToBalance(wallets, draft.walletId, -draft.amount)

\* C18 amended: creating a transfer without destination stores the row and
\* changes no wallet, the source wallet included.
Thm_C18 ==
    \A id \in TxIds \ DOMAIN transactions, draft \in Drafts :
        Inert(draft) =>
            LET s == createTx(Here, id, draft)
            IN  /\ s.wallets = wallets
                /\ s.wallets[draft.walletId].balance
                       # wallets[draft.walletId].balance - draft.amount
                /\ s.transactions = InsertTx(transactions, id, draft)

\* C18 witness: the only stored transaction is a transfer of 1 out of B
\* without destination, and both wallets stand at their opening balances.
Wit_C18 ==
    /\ DOMAIN transactions = {"t2"}
    /\ transactions["t2"] = [walletId |-> "B", type |-> "transfer", amount |-> 1,
                             toWalletId |-> NoWallet, transferFee |-> 0]
    /\ \A w \in WalletIds : wallets[w].balance = openingBalance[w]

\* C19: update(id, data) with an id that names no stored transaction fails:
\* the call never resolves, it reverses nothing and sets nothing, and every
\* wallet balance and every transaction row stays as it was when it began.
Thm_C19 ==
    (call.op = "update" /\ call.old = {}) =>
        /\ pc \in {"set", "failed"}
        /\ wallets = before.wallets
        /\ transactions = before.transactions

Wit_C19 ==
    /\ call.op = "update"
    /\ call.old = {}
    /\ pc = "failed"
    /\ failures = 0
    /\ transactions # <<>>
    /\ \E w \in DOMAIN wallets : wallets[w].balance # openingBalance[w]

\* C20: delete(id) with an id that names no stored transaction completes
\* without an error of its own and leaves every wallet balance and every
\* transaction row as it was; so the second of two deletes of one transaction
\* reverses nothing.
Thm_C20 ==
    (call.op = "delete" /\ call.old = {}) =>
        /\ pc \in {"remove", "done", "failed"}
        /\ pc = "failed" => failures > 0
        /\ wallets = before.wallets
        /\ transactions = before.transactions

Wit_C20 ==
    /\ call.op = "delete"
    /\ call.old = {}
    /\ pc = "done"
    /\ failures = 0
    /\ transactions # <<>>
    /\ \E w \in DOMAIN wallets : wallets[w].balance # openingBalance[w]

----------------------------------------------------------------------------
(* TransactionService.create with wallet ids that name no wallet row.      *)

Ghost == "ghost"    \* a wallet id with no row in wallets

\* drafts whose wallet_id or to_wallet_id may name no wallet
RefDrafts ==
    [walletId : WalletIds \cup {Ghost}, type : TxTypes, amount : {1},
     toWalletId : WalletIds \cup {Ghost, NoWallet}, transferFee : {0}]

\* wallet_id or to_wallet_id references a row that does not exist
Dangling(ws, t) ==
    \/ t.walletId \notin DOMAIN ws
    \/ t.toWalletId # NoWallet /\ t.toWalletId \notin DOMAIN ws

\* create(transaction): the INSERT is rejected by SQLite only when foreign
\* keys are enforced; otherwise the row is stored and each UPDATE wallets
\* of updateWalletBalance matches the rows that exist
createChecked(s, id, draft, fk) ==
    IF fk /\ Dangling(s.wallets, draft)
    THEN [store |-> s, failed |-> TRUE]
    ELSE [store |-> createTx(s, id, draft), failed |-> FALSE]

InitRefs ==
    /\ LedgerInit /\ DebtIdle /\ StepIdle /\ PlanIdle /\ AppIdle
    /\ foreignKeys \in BOOLEAN

\* create(draft), run to its end
CreateRef(id, draft) ==
    /\ pc = "idle"
    /\ id \notin DOMAIN transactions
    /\ LET r == createChecked(Store(wallets, transactions), id, draft,
                              foreignKeys)
       IN  /\ wallets' = r.store.wallets
           /\ transactions' = r.store.transactions
           /\ pc' = IF r.failed THEN "failed" ELSE "done"
    /\ call' = [op |-> "create", id |-> id, old |-> {}, new |-> {draft}]
    /\ before' = Store(wallets, transactions)
    /\ UNCHANGED <<openingBalance, seen, failures, aside>>

\* delete(id), run to its end
DeleteRef(id) ==
    /\ pc = "idle"
    /\ Delete(id)

NextRefs ==
    \/ \E id \in StepIds, draft \in RefDrafts : CreateRef(id, draft)
    \/ \E id \in StepIds : DeleteRef(id)
    \/ Return

SpecRefs == InitRefs /\ [][NextRefs]_vars

\* C21: a create whose wallet_id or to_wallet_id names no wallet fails,
\* inserts no transaction row and changes no wallet balance.
Orig_C21 ==
    (call.op = "create" /\ Dangling(wallets, The(call.new))) =>
        /\ pc = "failed"
        /\ Store(wallets, transactions) = before

----------------------------------------------------------------------------
(* Claims about LendBorrowService.create and addPayment.                   *)

\* C22: create stores the remaining amount it was given, 0 included, and
\* the amount when it was given none; the status is then pending.
Orig_C22 ==
    \A id \in LendIds \ DOMAIN lendBorrow, record \in LendDrafts :
        LET row == createLend(Debts(lendBorrow, lendBorrowPayments),
                              id, record).lendBorrow[id]
        IN  /\ row.remainingAmount =
                   Spread(record.amount, record.remainingAmount)
            /\ row.status = "pending"

----------------------------------------------------------------------------
(* BudgetService: spending per budget, and the alerts drawn from it, over  *)
(* transactions that carry a category and a date.                          *)

SpendIds == {"t1", "t2"}
SpendAmounts == {3, 8500}
SpendBudgetAmounts == {4, 10000}
SpendPeriods == {<<1, 2024>>, <<2, 2024>>}
\* the budgets that are set: category, month, year
SpendBudgetKeys ==
    {<<"food", 1, 2024>>, <<"rent", 1, 2024>>, <<"food", 2, 2024>>}
SpendDates ==
    {getTime([year |-> 2024, month |-> 1, day |-> 31]),
     getTime([year |-> 2024, month |-> 2, day |-> 1])}
Thresholds == {0, 80, 100, 200}
MaxSpendBudgets == 2    \* budget rows while transactions come and go

\* the transactions TransactionService.create is called with, with their
\* category and date
SpendDrafts ==
    [walletId : {"A"}, type : TxTypes, amount : SpendAmounts,
     toWalletId : {NoWallet}, transferFee : {0},
     categoryId : Categories, transactionDate : SpendDates]

\* the data TransactionService.update is called with: at most one of the
\* properties is present (a patch of several is a succession of these)
SpendPatches ==
    {data \in [type : Opt(TxTypes), amount : Opt(SpendAmounts),
               categoryId : Opt(Categories),
               transactionDate : Opt(SpendDates)] :
        Cardinality({f \in {"type", "amount", "categoryId", "transactionDate"} :
                        data[f] # {}}) <= 1}

\* UPDATE transactions SET ...data, for rows with a category and a date
SetSpendRow(row, data) ==
    [row EXCEPT !.type = Spread(row.type, data.type),
                !.amount = Spread(row.amount, data.amount),
                !.categoryId = Spread(row.categoryId, data.categoryId),
                !.transactionDate =
                    Spread(row.transactionDate, data.transactionDate)]

\* new Date(year, month - 1, 1)
startOfMonth(month, year) == getTime(Normalize(year, month, 1))

\* new Date(year, month, 0, 23, 59, 59): the last day of the month
endOfMonth(month, year) == getTime(Normalize(year, month + 1, 1)) - 1

\* COALESCE(SUM(amount), 0) over the given rows
RECURSIVE SumAmounts(_, _)
SumAmounts(txs, ids) ==
    IF ids = {}
    THEN 0
    ELSE LET i == CHOOSE i \in ids : TRUE
         IN  txs[i].amount + SumAmounts(txs, ids \ {i})

\* the rows the spending query of getBudgetWithSpending selects
spendingRows(txs, categoryId, month, year) ==
    {i \in DOMAIN txs :
        /\ txs[i].categoryId = categoryId
        /\ txs[i].type = "expense"
        /\ txs[i].transactionDate >= startOfMonth(month, year)
        /\ txs[i].transactionDate <= endOfMonth(month, year)}

\* (spent / budget.amount) * 100 as a fraction; n / 0 is Infinity in
\* JavaScript for n > 0 and NaN for n = 0
Percentage(spent, amount) == [num |-> spent * 100, den |-> amount]

\* percentage >= threshold
AtLeast(percentage, threshold) ==
    IF percentage.den > 0
    THEN percentage.num >= threshold * percentage.den
    ELSE percentage.den = 0 /\ percentage.num > 0

\* mutant of getBudgetWithSpending: every transaction of the category in
\* the month counts, whatever its type
getBudgetWithSpending_anyType(bs, txs, month, year) ==
    [i \in getByPeriod(bs, month, year) |->
        LET budget == bs[i]
            spent == SumAmounts(txs,
                         {t \in DOMAIN txs :
                             /\ txs[t].categoryId = budget.categoryId
                             /\ txs[t].transactionDate
                                    >= startOfMonth(month, year)
                             /\ txs[t].transactionDate
                                    <= endOfMonth(month, year)})
        IN  [categoryId |-> budget.categoryId, amount |-> budget.amount,
             spent |-> spent,
             remaining |-> budget.amount - spent,
             percentage |-> Percentage(spent, budget.amount),
             isOverBudget |-> spent > budget.amount]]

\* getBudgetWithSpending(month, year): budget id -> the budget with its
\* spending
getBudgetWithSpending(bs, txs, month, year) ==
    [i \in getByPeriod(bs, month, year) |->
        LET budget == bs[i]
            spent == SumAmounts(txs, spendingRows(txs, budget.categoryId,
                                                  month, year))
        IN  [categoryId |-> budget.categoryId, amount |-> budget.amount,
             spent |-> spent,
             remaining |-> budget.amount - spent,
             percentage |-> Percentage(spent, budget.amount),
             isOverBudget |-> spent > budget.amount]]

\* mutant of getBudgetAlerts: only the threshold is tested
getBudgetAlerts_thresholdOnly(bs, txs, month, year, threshold) ==
    LET budgetsWithSpending == getBudgetWithSpending(bs, txs, month, year)
    IN  {i \in DOMAIN budgetsWithSpending :
            AtLeast(budgetsWithSpending[i].percentage, threshold)}

\* getBudgetAlerts(month, year, threshold): the ids of the budgets returned
getBudgetAlerts(bs, txs, month, year, threshold) ==
    LET budgetsWithSpending == getBudgetWithSpending(bs, txs, month, year)
    IN  {i \in DOMAIN budgetsWithSpending :
            \/ AtLeast(budgetsWithSpending[i].percentage, threshold)
            \/ budgetsWithSpending[i].isOverBudget}

\* update(id, data) on a stored id, for any data
UpdateDated(id) ==
    /\ id \in DOMAIN transactions
    /\ \E updated \in {SetSpendRow(transactions[id], data) :
                            data \in SpendPatches} :
           LET s == reverseAndApply(Store(wallets, transactions), id, updated)
           IN  /\ wallets' = s.wallets
               /\ transactions' = s.transactions
    /\ UNCHANGED <<openingBalance, notLedger>>

\* upsertBudget while the table has room
UpsertSpendBudget(categoryId, amount, month, year) ==
    /\ UpsertBudget(categoryId, amount, month, year)
    /\ Cardinality(DOMAIN budgets') <= MaxSpendBudgets

NextSpending ==
    \/ \E id \in SpendIds, draft \in SpendDrafts : Create(id, draft)
    \/ \E id \in SpendIds : UpdateDated(id)
    \/ \E id \in SpendIds : Delete(id)
    \/ \E key \in SpendBudgetKeys, amount \in SpendBudgetAmounts :
           UpsertSpendBudget(key[1], amount, key[2], key[3])

\* dated transactions created, updated and deleted while budgets are set
SpecSpending == Init /\ [][NextSpending]_vars

----------------------------------------------------------------------------
(* Claims about budgets with spending.                                     *)

\* the stored expenses of a category whose date falls in a calendar month
ExpensesIn(categoryId, month, year) ==
    {i \in DOMAIN transactions :
        /\ transactions[i].type = "expense"
        /\ transactions[i].categoryId = categoryId
        /\ toDate(transactions[i].transactionDate).month = month
        /\ toDate(transactions[i].transactionDate).year = year}

SpentIn(categoryId, month, year) ==
    SumAmounts(transactions, ExpensesIn(categoryId, month, year))

AskedPeriods == SpendPeriods \cup {<<1, 2025>>}

----------------------------------------------------------------------------
(* SettingsService: get, set, setTyped, delete and initializeDefaults, as  *)
(* functions of the settings table.                                        *)

\* the defaults of initializeDefaults, in the order of Object.entries; of
\* the thirteen, one string, one number and the one null are kept
Defaults ==
    <<[key |-> "currency", value |-> [type |-> "string", v |-> "INR"]],
      [key |-> "firstDayOfWeek", value |-> [type |-> "number", v |-> "1"]],
      [key |-> "lastBackupDate", value |-> [type |-> "null", v |-> "null"]]>>

DefaultKeys == {Defaults[n].key : n \in DOMAIN Defaults}
SettingKeys == DefaultKeys \cup {"userName"}
SettingValues == {"", "USD"}    \* the strings set(key, value) is called with

\* what a settings operation gives back: the table, and whether it threw
Settings(st, failed) == [settings |-> st, failed |-> failed]

\* get(key): setting?.value || null, {} standing for null
get(st, key) ==
    IF key \in DOMAIN st /\ st[key] # ""
    THEN {st[key]}
    ELSE {}

\* set(key, value): UPDATE when get(key) is not null, INSERT otherwise; the
\* INSERT of a key that has a row violates UNIQUE(key) and throws
set(st, key, value) ==
    IF get(st, key) # {}
    THEN Settings([st EXCEPT ![key] = value], FALSE)
    ELSE IF key \in DOMAIN st
    THEN Settings(st, TRUE)
    ELSE Settings([k \in DOMAIN st \cup {key} |->
                      IF k = key THEN value ELSE st[k]], FALSE)

\* typeof value === "string" ? value : JSON.stringify(value)
stringify(value) ==
    IF value.type = "string" THEN value.v
    ELSE IF value.type = "null" THEN "null"
    ELSE value.v

\* setTyped(key, value)
setTyped(st, key, value) == set(st, key, stringify(value))

\* initializeDefaults: the loop from the n-th default on; a throw ends it
RECURSIVE SeedFrom(_, _)
SeedFrom(st, n) ==
    IF n > Len(Defaults)
    THEN Settings(st, FALSE)
    ELSE IF get(st, Defaults[n].key) # {}
    THEN SeedFrom(st, n + 1)
    ELSE LET r == setTyped(st, Defaults[n].key, Defaults[n].value)
         IN  IF r.failed THEN r ELSE SeedFrom(r.settings, n + 1)

\* initializeDefaults()
initializeDefaults(st) == SeedFrom(st, 1)

notSettings ==
    <<ledgerVars, debtVars, stepVars, planVars, foreignKeys, categories,
      inflight, zone>>

SetSetting(key, value) ==
    /\ settings' = set(settings, key, value).settings
    /\ UNCHANGED notSettings

\* delete(key)
DeleteSetting(key) ==
    /\ settings' = [k \in DOMAIN settings \ {key} |-> settings[k]]
    /\ UNCHANGED notSettings

InitializeDefaults ==
    /\ settings' = initializeDefaults(settings).settings
    /\ UNCHANGED notSettings

NextSettings ==
    \/ \E key \in SettingKeys, value \in SettingValues : SetSetting(key, value)
    \/ \E key \in SettingKeys : DeleteSetting(key)
    \/ InitializeDefaults

SpecSettings == Init /\ [][NextSettings]_vars

\* C24: from every settings table initializeDefaults completes without
\* error, keeps the value of every key that has a row, gives every default
\* key a row, and changes nothing when it is run again.
Orig_C24 ==
    LET once == initializeDefaults(settings)
        twice == initializeDefaults(once.settings)
    IN  /\ ~once.failed
        /\ \A k \in DOMAIN settings :
               k \in DOMAIN once.settings /\ once.settings[k] = settings[k]
        /\ DefaultKeys \subseteq DOMAIN once.settings
        /\ ~twice.failed
        /\ twice.settings = once.settings

----------------------------------------------------------------------------
(* CategoryService.seedDefaultCategories and initializeDatabase.           *)

MaxSeedings == 2    \* the catalog is inserted at most MaxSeedings times

\* the catalog of seedDefaultCategories
defaultCategories ==
    <<[name |-> "Food & Dining", type |-> "expense"],
      [name |-> "Transportation", type |-> "expense"],
      [name |-> "Shopping", type |-> "expense"],
      [name |-> "Entertainment", type |-> "expense"],
      [name |-> "Bills & Utilities", type |-> "expense"],
      [name |-> "Healthcare", type |-> "expense"],
      [name |-> "Education", type |-> "expense"],
      [name |-> "Personal Care", type |-> "expense"],
      [name |-> "Travel", type |-> "expense"],
      [name |-> "Investments", type |-> "expense"],
      [name |-> "Gifts & Donations", type |-> "expense"],
      [name |-> "Other Expenses", type |-> "expense"],
      [name |-> "Salary", type |-> "income"],
      [name |-> "Freelance", type |-> "income"],
      [name |-> "Business", type |-> "income"],
      [name |-> "Investments", type |-> "income"],
      [name |-> "Gifts", type |-> "income"],
      [name |-> "Other Income", type |-> "income"]>>

\* CategoryService.create(category), the id being the next row number
createCategory(cs, category) ==
    [i \in DOMAIN cs \cup {Cardinality(DOMAIN cs) + 1} |->
        IF i \in DOMAIN cs THEN cs[i] ELSE category]

\* seedDefaultCategories: the loop from the n-th entry of the catalog on
RECURSIVE SeedCategoriesFrom(_, _)
SeedCategoriesFrom(cs, n) ==
    IF n > Len(defaultCategories)
    THEN cs
    ELSE SeedCategoriesFrom(createCategory(cs, defaultCategories[n]), n + 1)

\* seedDefaultCategories()
seedDefaultCategories(cs) == SeedCategoriesFrom(cs, 1)

\* initializeDatabase(): the settings and categories tables it leaves, and
\* what it returns; an error of initializeDefaults is caught before the
\* categories are looked at
initializeDatabase(st, cs) ==
    LET seeded == initializeDefaults(st)
    IN  IF seeded.failed
        THEN [settings |-> seeded.settings, categories |-> cs,
              returned |-> FALSE]
        ELSE [settings |-> seeded.settings,
              categories |-> IF Cardinality(DOMAIN cs) = 0
                             THEN seedDefaultCategories(cs)
                             ELSE cs,
              returned |-> TRUE]

notApp ==
    <<ledgerVars, debtVars, stepVars, planVars, foreignKeys, inflight, zone>>

SeedDefaultCategories ==
    /\ Cardinality(DOMAIN categories)
           < MaxSeedings * Len(defaultCategories)
    /\ categories' = seedDefaultCategories(categories)
    /\ UNCHANGED <<settings, notApp>>

InitializeDatabase ==
    /\ LET r == initializeDatabase(settings, categories)
       IN  /\ settings' = r.settings
           /\ categories' = r.categories
    /\ UNCHANGED notApp

NextSeed ==
    \/ SeedDefaultCategories
    \/ InitializeDatabase
    \/ \E key \in SettingKeys, value \in SettingValues : SetSetting(key, value)
    \/ \E key \in SettingKeys : DeleteSetting(key)

SpecSeed == Init /\ [][NextSeed]_vars

\* C25: seedDefaultCategories inserts its 18 categories when the table is
\* empty and nothing otherwise, so after every seedDefaultCategories or
\* initializeDatabase call the table holds exactly 18 seeded categories.
Orig_C25 ==
    [][/\ SeedDefaultCategories =>
              IF categories = <<>>
              THEN Cardinality(DOMAIN categories') = 18
              ELSE categories' = categories
       /\ (SeedDefaultCategories \/ InitializeDatabase) =>
              Cardinality(DOMAIN categories') = 18]_vars

----------------------------------------------------------------------------
(* TransactionService.getSummary.                                          *)

\* the bounds getSummary is called with: {} is an omitted bound
SummaryBounds == Opt(SpendDates)

\* the WHERE clause of getSummary
whereClause(row, startDate, endDate) ==
    IF startDate # {} /\ endDate # {}
    THEN /\ row.transactionDate >= The(startDate)
         /\ row.transactionDate <= The(endDate)
    ELSE IF startDate # {}
    THEN row.transactionDate >= The(startDate)
    ELSE IF endDate # {}
    THEN row.transactionDate <= The(endDate)
    ELSE TRUE

\* SUM(CASE WHEN type = ... THEN amount ELSE 0 END) over the given rows
SumOfType(txs, ids, type) ==
    SumAmounts(txs, {i \in ids : txs[i].type = type})

\* mutant of getSummary: the bounds are exclusive
getSummary_exclusive(txs, startDate, endDate) ==
    LET selected == {i \in DOMAIN txs :
                        /\ \A v \in startDate : txs[i].transactionDate > v
                        /\ \A v \in endDate : txs[i].transactionDate < v}
        totalIncome == SumOfType(txs, selected, "income")
        totalExpense == SumOfType(txs, selected, "expense")
    IN  [totalIncome |-> totalIncome,
         totalExpense |-> totalExpense,
         netAmount |-> totalIncome - totalExpense,
         transactionCount |-> Cardinality(selected)]

\* getSummary(startDate, endDate)
getSummary(txs, startDate, endDate) ==
    LET selected == {i \in DOMAIN txs :
                        whereClause(txs[i], startDate, endDate)}
        totalIncome == SumOfType(txs, selected, "income")
        totalExpense == SumOfType(txs, selected, "expense")
    IN  [totalIncome |-> totalIncome,
         totalExpense |-> totalExpense,
         netAmount |-> totalIncome - totalExpense,
         transactionCount |-> Cardinality(selected)]

\* the stored transactions dated from start to end, an omitted bound
\* leaving its side open
DatedWithin(start, end) ==
    {i \in DOMAIN transactions :
        /\ \A v \in start : v <= transactions[i].transactionDate
        /\ \A v \in end : transactions[i].transactionDate <= v}

\* C27: getSummary counts the transactions dated from start to end, both
\* inclusive and either one optional; its totals are the sums of the income
\* and of the expense amounts among them, its net amount their difference,
\* and transfers add to the count only.
Thm_C27 ==
    \A start \in SummaryBounds, end \in SummaryBounds :
        LET summary == getSummary(transactions, start, end)
            counted == DatedWithin(start, end)
            incomes == {i \in counted : transactions[i].type = "income"}
            expenses == {i \in counted : transactions[i].type = "expense"}
        IN  /\ summary.transactionCount = Cardinality(counted)
            /\ summary.totalIncome = SumAmounts(transactions, incomes)
            /\ summary.totalExpense = SumAmounts(transactions, expenses)
            /\ summary.netAmount = summary.totalIncome - summary.totalExpense

\* C27 witness: a transfer of 31 January and an expense of 1 February are
\* stored; the summary up to 31 January counts one transaction and totals
\* nothing, the summary without bounds counts two.
Wit_C27 ==
    /\ DOMAIN transactions = SpendIds
    /\ transactions["t1"].type = "transfer"
    /\ transactions["t1"].transactionDate = startOfMonth(2, 2024) - 1
    /\ transactions["t2"].type = "expense"
    /\ transactions["t2"].transactionDate = startOfMonth(2, 2024)
    /\ getSummary(transactions, {}, {startOfMonth(2, 2024) - 1}) =
           [totalIncome |-> 0, totalExpense |-> 0, netAmount |-> 0,
            transactionCount |-> 1]
    /\ getSummary(transactions, {}, {}).transactionCount = 2

----------------------------------------------------------------------------
(* Claims about addPayment and the record it names.                        *)

\* C28: addPayment on an id that names no record fails and leaves payments
\* and records as they were; on a record it inserts one payment row, owned
\* by that record, and changes that record's remaining amount and status
\* and nothing else.
Thm_C28 ==
    \A id \in LendIds, p \in PaymentIds \ DOMAIN lendBorrowPayments,
       amount \in PayAmounts :
        LET d == Debts(lendBorrow, lendBorrowPayments)
            after == addPayment(d, id, p, amount)
        IN  IF id \notin DOMAIN lendBorrow
            THEN addPaymentThrows(d, id) /\ after = d
            ELSE /\ ~addPaymentThrows(d, id)
                 /\ DOMAIN after.payments = DOMAIN lendBorrowPayments \cup {p}
                 /\ after.payments[p].lendBorrowId = id
                 /\ \A q \in DOMAIN lendBorrowPayments :
                        after.payments[q] = lendBorrowPayments[q]
                 /\ DOMAIN after.lendBorrow = DOMAIN lendBorrow
                 /\ \A other \in DOMAIN lendBorrow \ {id} :
                        after.lendBorrow[other] = lendBorrow[other]
                 /\ after.lendBorrow[id] =
                        [lendBorrow[id] EXCEPT
                            !.remainingAmount = after.lendBorrow[id].remainingAmount,
                            !.status = after.lendBorrow[id].status]

\* C28 witness: record L1 has a payment and record L2 does not exist, so
\* that a payment to L2 fails while a second payment to L1 is taken.
Wit_C28 ==
    /\ DOMAIN lendBorrow = {"L1"}
    /\ DOMAIN lendBorrowPayments = {"p1"}
    /\ lendBorrowPayments["p1"].lendBorrowId = "L1"
    /\ lendBorrow["L1"].status = "partial"
    /\ addPaymentThrows(Debts(lendBorrow, lendBorrowPayments), "L2")

----------------------------------------------------------------------------
(* BillReminderService.snooze, with timestamps in hours and the local time *)
(* of the runtime: setDate works on the local calendar, getTime on the     *)
(* timestamp.                                                              *)

MaxSnoozeHour == 120    \* due dates stay below MaxSnoozeHour hours

Zones == {"fixed", "summer"}

\* in zone "summer" the clocks go forward one hour at timestamp ClockChange
ClockChange == 50

\* the offset of local time at a timestamp
offsetAt(z, ts) == IF z = "summer" /\ ts >= ClockChange THEN 1 ELSE 0

\* the local time of a timestamp, and the timestamp of a local time
toLocal(z, ts) == ts + offsetAt(z, ts)
fromLocal(z, local) ==
    IF z = "summer" /\ local > ClockChange THEN local - 1 ELSE local

\* d = new Date(date); d.setDate(d.getDate() + days)
setDate(z, date, days) == fromLocal(z, toLocal(z, date) + 24 * days)

SnoozeDays == {1, 2}
SnoozeDueDates == {36, 60}

\* the reminders BillReminderService.create is called with
SnoozeDrafts ==
    {[title |-> "rent", amount |-> 500, categoryId |-> "bills",
      walletId |-> "A", dueDate |-> due,
      reminderDate |-> IF lead = {} THEN {} ELSE {due - 24 * The(lead)},
      isRecurring |-> rec, frequency |-> IF rec THEN "monthly" ELSE Null,
      isPaid |-> paid, transactionId |-> Null] :
        due \in SnoozeDueDates, lead \in Opt({1}), rec \in BOOLEAN,
        paid \in BOOLEAN}

\* snooze(id, days)
snooze(z, rs, id, days) ==
    IF id \notin DOMAIN rs
    THEN Bills(rs, TRUE)
    ELSE LET reminder == rs[id]
             newDueDate == setDate(z, reminder.dueDate, days)
             newReminderDate ==
                 IF reminder.reminderDate # {}
                 THEN {The(reminder.reminderDate) + days * 24}
                 ELSE {}
         IN  Bills([rs EXCEPT ![id].dueDate = newDueDate,
                              ![id].reminderDate = newReminderDate],
                   FALSE)

InitSnooze ==
    /\ LedgerInit /\ DebtIdle /\ StepIdle /\ PlanIdle /\ BaseOff /\ TablesIdle
    /\ zone \in Zones

Snooze(id, days) ==
    /\ billReminders' = snooze(zone, billReminders, id, days).billReminders
    /\ \A i \in DOMAIN billReminders' :
           billReminders'[i].dueDate < MaxSnoozeHour
    /\ UNCHANGED <<budgets, notPlan>>

NextSnooze ==
    \/ \E reminder \in SnoozeDrafts : CreateReminder(reminder)
    \/ \E id \in 1..2, days \in SnoozeDays : Snooze(id, days)

SpecSnooze == InitSnooze /\ [][NextSnooze]_vars

\* C29: snooze(id, days) on a stored reminder moves the due date and the
\* reminder date forward by days whole days, so that the time between them
\* stays the same, and changes no other field and no other reminder; on an
\* id that is not stored it fails and changes nothing.
Orig_C29 ==
    \A id \in 1..3, days \in SnoozeDays :
        LET out == snooze(zone, billReminders, id, days)
            rows == out.billReminders
        IN  IF id \notin DOMAIN billReminders
            THEN out.failed /\ rows = billReminders
            ELSE LET old == billReminders[id]
                 IN  /\ ~out.failed
                     /\ DOMAIN rows = DOMAIN billReminders
                     /\ \A i \in DOMAIN rows \ {id} : rows[i] = billReminders[i]
                     /\ rows[id] = [old EXCEPT
                                       !.dueDate = rows[id].dueDate,
                                       !.reminderDate = rows[id].reminderDate]
                     /\ toLocal(zone, rows[id].dueDate) =
                            toLocal(zone, old.dueDate) + 24 * days
                     /\ (old.reminderDate = {}) = (rows[id].reminderDate = {})
                     /\ \A v \in old.reminderDate, w \in rows[id].reminderDate :
                            rows[id].dueDate - w = old.dueDate - v

----------------------------------------------------------------------------
(* Two callers with TransactionService.update / delete calls in flight at  *)
(* once: each statement of a call is one step, and the steps of the two    *)
(* calls interleave at their awaits.                                       *)

MaxDrift == 1       \* calls start while balances are within MaxDrift of opening

Callers == {1, 2}

\* the data update is called with
RacePatches ==
    {data \in StepPatches :
        /\ data.amount = {} /\ data.walletId = {}
        /\ data.toWalletId = {} /\ data.transferFee = {}}

raceRest ==
    <<openingBalance, debtVars, planVars, foreignKeys, settings, categories,
      zone, pc, call, seen, failures>>

At(c, p) == c \in DOMAIN inflight /\ inflight[c].pc = p

Finished(c) == At(c, "done") \/ At(c, "failed")

NearOpening ==
    \A w \in WalletIds :
        /\ wallets[w].balance - openingBalance[w] <= MaxDrift
        /\ openingBalance[w] - wallets[w].balance <= MaxDrift

\* create(draft), run to its end while no other call is in flight
RaceCreate(id, draft) ==
    /\ inflight = <<>>
    /\ NearOpening
    /\ Create(id, draft)

\* a caller calls update(id, data) or delete(id)
RaceStart(c, op, id, data) ==
    /\ c \notin DOMAIN inflight
    /\ NearOpening
    /\ inflight' = [k \in DOMAIN inflight \cup {c} |->
                       IF k = c
                       THEN [op |-> op, id |-> id, data |-> data,
                             old |-> {}, new |-> {}, pc |-> "load"]
                       ELSE inflight[k]]
    /\ before' = IF inflight = <<>> THEN Store(wallets, transactions) ELSE before
    /\ UNCHANGED <<wallets, transactions, raceRest>>

\* update / delete: getById(id)
RaceLoad(c) ==
    /\ At(c, "load")
    /\ LET id == inflight[c].id
           found == id \in DOMAIN transactions
       IN  inflight' = [inflight EXCEPT
               ![c].old = IF found THEN {transactions[id]} ELSE {},
               ![c].pc = IF found THEN "reverse"
                         ELSE IF inflight[c].op = "update" THEN "set"
                         ELSE "remove"]
    /\ UNCHANGED <<wallets, transactions, before, raceRest>>

RaceAfterReverse(c) == IF inflight[c].op = "update" THEN "set" ELSE "remove"

\* reverseWalletBalance(oldTransaction): its first statement
RaceReverseFirst(c) ==
    /\ At(c, "reverse")
    /\ wallets' = FirstWrite(wallets, The(inflight[c].old), -1)
    /\ inflight' = [inflight EXCEPT
           ![c].pc = IF TwoWrites(The(inflight[c].old))
                     THEN "reverseSecond" ELSE RaceAfterReverse(c)]
    /\ UNCHANGED <<transactions, before, raceRest>>

\* reverseWalletBalance(oldTransaction): the destination of a transfer
RaceReverseSecond(c) ==
    /\ At(c, "reverseSecond")
    /\ wallets' = SecondWrite(wallets, The(inflight[c].old), -1)
    /\ inflight' = [inflight EXCEPT ![c].pc = RaceAfterReverse(c)]
    /\ UNCHANGED <<transactions, before, raceRest>>

\* update: UPDATE transactions SET ...data WHERE id = id RETURNING; with no
\* such row, updated is undefined and updateWalletBalance(updated) throws
RaceSet(c) ==
    /\ At(c, "set")
    /\ LET id == inflight[c].id
       IN  IF id \in DOMAIN transactions
           THEN LET updated == SetRow(transactions[id], inflight[c].data)
                IN  /\ transactions' = [transactions EXCEPT ![id] = updated]
                    /\ inflight' = [inflight EXCEPT ![c].new = {updated},
                                                    ![c].pc = "apply"]
           ELSE /\ inflight' = [inflight EXCEPT ![c].pc = "failed"]
                /\ UNCHANGED transactions
    /\ UNCHANGED <<wallets, before, raceRest>>

\* updateWalletBalance(updated): its first statement
RaceApplyFirst(c) ==
    /\ At(c, "apply")
    /\ wallets' = FirstWrite(wallets, The(inflight[c].new), 1)
    /\ inflight' = [inflight EXCEPT
           ![c].pc = IF TwoWrites(The(inflight[c].new))
                     THEN "applySecond" ELSE "done"]
    /\ UNCHANGED <<transactions, before, raceRest>>

\* updateWalletBalance(updated): the destination of a transfer
RaceApplySecond(c) ==
    /\ At(c, "applySecond")
    /\ wallets' = SecondWrite(wallets, The(inflight[c].new), 1)
    /\ inflight' = [inflight EXCEPT ![c].pc = "done"]
    /\ UNCHANGED <<transactions, before, raceRest>>

\* delete: DELETE FROM transactions WHERE id = id
RaceRemove(c) ==
    /\ At(c, "remove")
    /\ transactions' = RemoveTx(transactions, inflight[c].id)
    /\ inflight' = [inflight EXCEPT ![c].pc = "done"]
    /\ UNCHANGED <<wallets, before, raceRest>>

\* every call in flight has resolved or rejected
RaceSettle ==
    /\ inflight # <<>>
    /\ \A c \in DOMAIN inflight : Finished(c)
    /\ inflight' = <<>>
    /\ UNCHANGED <<wallets, transactions, before, raceRest>>

NextRace ==
    \/ \E id \in StepIds, draft \in StepDrafts : RaceCreate(id, draft)
    \/ \E c \in Callers, id \in StepIds, data \in RacePatches :
           RaceStart(c, "update", id, data)
    \/ \E c \in Callers, id \in StepIds :
           RaceStart(c, "delete", id, [amount |-> {}, walletId |-> {},
                                       toWalletId |-> {}, transferFee |-> {},
                                       type |-> {}])
    \/ \E c \in Callers : RaceLoad(c)
    \/ \E c \in Callers : RaceReverseFirst(c)
    \/ \E c \in Callers : RaceReverseSecond(c)
    \/ \E c \in Callers : RaceSet(c)
    \/ \E c \in Callers : RaceApplyFirst(c)
    \/ \E c \in Callers : RaceApplySecond(c)
    \/ \E c \in Callers : RaceRemove(c)
    \/ RaceSettle

SpecRace == Init /\ [][NextRace]_vars

\* one call run from start to end on the store s
RunAlone(s, c) ==
    IF c.op = "delete"
    THEN deleteTx(s, c.id)
    ELSE IF c.id \in DOMAIN s.transactions
    THEN updateTx(s, c.id, c.data)
    ELSE s

\* C30: when an update and a delete, or two deletes, of one transaction
\* were in flight together and both have ended, the balances and rows are
\* those that one of the two serial orders of the calls leaves.
Orig_C30 ==
    (/\ DOMAIN inflight = Callers
     /\ \A c \in Callers : Finished(c)
     /\ inflight[1].id = inflight[2].id
     /\ "delete" \in {inflight[1].op, inflight[2].op}) =>
        Store(wallets, transactions) \in
            {RunAlone(RunAlone(before, inflight[1]), inflight[2]),
             RunAlone(RunAlone(before, inflight[2]), inflight[1])}

----------------------------------------------------------------------------
(* Two callers with LendBorrowService.addPayment / deletePayment calls in  *)
(* flight at once on one record: each awaited statement of a call is one   *)
(* step, and the steps of the two calls interleave.                        *)

PayRecordIds == {"L1"}

payRest ==
    <<requested, ledgerVars, stepVars, planVars, foreignKeys, settings,
      categories, zone>>

\* create(record) with remainingAmount left out, run to its end while no
\* other call is in flight
PayCreate(id, record) ==
    /\ inflight = <<>>
    /\ record.remainingAmount = {}
    /\ id \notin DOMAIN lendBorrow
    /\ lendBorrow' =
           createLend(Debts(lendBorrow, lendBorrowPayments), id, record).lendBorrow
    /\ UNCHANGED <<lendBorrowPayments, inflight, payRest>>

\* the payment ids the calls in flight have drawn from crypto.randomUUID()
Drawn == {inflight[c].paymentId : c \in DOMAIN inflight}

\* a caller calls addPayment(lendBorrowId, {amount})
PayStartAdd(c, lendBorrowId, paymentId, amount) ==
    /\ c \notin DOMAIN inflight
    /\ paymentId \notin DOMAIN lendBorrowPayments \cup Drawn
    /\ inflight' = [k \in DOMAIN inflight \cup {c} |->
                       IF k = c
                       THEN [op |-> "addPayment", lendBorrowId |-> lendBorrowId,
                             paymentId |-> paymentId, amount |-> amount,
                             record |-> {}, totalPaid |-> 0, pc |-> "getById"]
                       ELSE inflight[k]]
    /\ UNCHANGED <<lendBorrow, lendBorrowPayments, payRest>>

\* a caller calls deletePayment(paymentId)
PayStartDelete(c, paymentId) ==
    /\ c \notin DOMAIN inflight
    /\ inflight' = [k \in DOMAIN inflight \cup {c} |->
                       IF k = c
                       THEN [op |-> "deletePayment", lendBorrowId |-> "none",
                             paymentId |-> paymentId, amount |-> 0,
                             record |-> {}, totalPaid |-> 0, pc |-> "select"]
                       ELSE inflight[k]]
    /\ UNCHANGED <<lendBorrow, lendBorrowPayments, payRest>>

\* addPayment: const record = await this.getById(lendBorrowId)
PayGetById(c) ==
    /\ At(c, "getById")
    /\ inflight[c].op = "addPayment"
    /\ LET id == inflight[c].lendBorrowId
       IN  inflight' = [inflight EXCEPT
               ![c].record = IF id \in DOMAIN lendBorrow
                             THEN {lendBorrow[id]} ELSE {},
               ![c].pc = IF id \in DOMAIN lendBorrow THEN "insert" ELSE "failed"]
    /\ UNCHANGED <<lendBorrow, lendBorrowPayments, payRest>>

\* addPayment: INSERT INTO lend_borrow_payments
PayInsert(c) ==
    /\ At(c, "insert")
    /\ lendBorrowPayments' =
           [p \in DOMAIN lendBorrowPayments \cup {inflight[c].paymentId} |->
               IF p = inflight[c].paymentId
               THEN [lendBorrowId |-> inflight[c].lendBorrowId,
                     amount |-> inflight[c].amount]
               ELSE lendBorrowPayments[p]]
    /\ inflight' = [inflight EXCEPT ![c].pc = "update"]
    /\ UNCHANGED <<lendBorrow, payRest>>

\* this.update(id, {remainingAmount, status}): UPDATE lend_borrow SET ...
\* WHERE id = id, which changes nothing when no such row is stored
updateLend(lb, id, newRemaining, newStatus) ==
    IF id \in DOMAIN lb
    THEN [lb EXCEPT ![id].remainingAmount = Max(0, newRemaining),
                    ![id].status = newStatus]
    ELSE lb

\* addPayment: the new remaining amount and status, from the record that
\* was read at the start of the call, and this.update(...)
PayUpdateAdd(c) ==
    /\ At(c, "update")
    /\ inflight[c].op = "addPayment"
    /\ LET record == The(inflight[c].record)
           newRemaining == record.remainingAmount - inflight[c].amount
           newStatus == IF newRemaining <= 0 THEN "completed"
                        ELSE IF newRemaining < record.amount THEN "partial"
                        ELSE record.status
       IN  lendBorrow' = updateLend(lendBorrow, inflight[c].lendBorrowId,
                                    newRemaining, newStatus)
    /\ inflight' = [inflight EXCEPT ![c].pc = "done"]
    /\ UNCHANGED <<lendBorrowPayments, payRest>>

\* deletePayment: SELECT ... WHERE id = paymentId LIMIT 1; "Payment not
\* found" is thrown when there is none
PaySelect(c) ==
    /\ At(c, "select")
    /\ LET p == inflight[c].paymentId
       IN  inflight' = [inflight EXCEPT
               ![c].lendBorrowId = IF p \in DOMAIN lendBorrowPayments
                                   THEN lendBorrowPayments[p].lendBorrowId
                                   ELSE "none",
               ![c].pc = IF p \in DOMAIN lendBorrowPayments
                         THEN "erase" ELSE "failed"]
    /\ UNCHANGED <<lendBorrow, lendBorrowPayments, payRest>>

\* deletePayment: DELETE FROM lend_borrow_payments WHERE id = paymentId
PayErase(c) ==
    /\ At(c, "erase")
    /\ lendBorrowPayments' =
           [p \in DOMAIN lendBorrowPayments \ {inflight[c].paymentId} |->
               lendBorrowPayments[p]]
    /\ inflight' = [inflight EXCEPT ![c].pc = "getById"]
    /\ UNCHANGED <<lendBorrow, payRest>>

\* deletePayment: const record = await this.getById(payment.lendBorrowId)
PayReload(c) ==
    /\ At(c, "getById")
    /\ inflight[c].op = "deletePayment"
    /\ LET id == inflight[c].lendBorrowId
       IN  inflight' = [inflight EXCEPT
               ![c].record = IF id \in DOMAIN lendBorrow
                             THEN {lendBorrow[id]} ELSE {},
               ![c].pc = IF id \in DOMAIN lendBorrow
                         THEN "getPayments" ELSE "done"]
    /\ UNCHANGED <<lendBorrow, lendBorrowPayments, payRest>>

\* deletePayment: const payments = await this.getPayments(...), and their sum
PayGetPayments(c) ==
    /\ At(c, "getPayments")
    /\ inflight' = [inflight EXCEPT
           ![c].totalPaid =
               SumPayments(lendBorrowPayments,
                           getPayments(lendBorrowPayments,
                                       inflight[c].lendBorrowId)),
           ![c].pc = "update"]
    /\ UNCHANGED <<lendBorrow, lendBorrowPayments, payRest>>

\* deletePayment: the remaining amount and status from the payments that
\* were read, and this.update(...)
PayUpdateDelete(c) ==
    /\ At(c, "update")
    /\ inflight[c].op = "deletePayment"
    /\ LET record == The(inflight[c].record)
           newRemaining == record.amount - inflight[c].totalPaid
           newStatus == IF newRemaining <= 0 THEN "completed"
                        ELSE IF newRemaining < record.amount THEN "partial"
                        ELSE "pending"
       IN  lendBorrow' = updateLend(lendBorrow, inflight[c].lendBorrowId,
                                    newRemaining, newStatus)
    /\ inflight' = [inflight EXCEPT ![c].pc = "done"]
    /\ UNCHANGED <<lendBorrowPayments, payRest>>

\* every call in flight has resolved or rejected
PaySettle ==
    /\ inflight # <<>>
    /\ \A c \in DOMAIN inflight : Finished(c)
    /\ inflight' = <<>>
    /\ UNCHANGED <<lendBorrow, lendBorrowPayments, payRest>>

NextPayRace ==
    \/ \E id \in PayRecordIds, record \in LendDrafts : PayCreate(id, record)
    \/ \E c \in Callers, id \in PayRecordIds, p \in PaymentIds,
          amount \in PositivePayAmounts : PayStartAdd(c, id, p, amount)
    \/ \E c \in Callers, p \in PaymentIds : PayStartDelete(c, p)
    \/ \E c \in Callers : PayGetById(c)
    \/ \E c \in Callers : PayInsert(c)
    \/ \E c \in Callers : PayUpdateAdd(c)
    \/ \E c \in Callers : PaySelect(c)
    \/ \E c \in Callers : PayErase(c)
    \/ \E c \in Callers : PayReload(c)
    \/ \E c \in Callers : PayGetPayments(c)
    \/ \E c \in Callers : PayUpdateDelete(c)
    \/ PaySettle

SpecPayRace == InitDebt /\ [][NextPayRace]_vars

\* C31: when two addPayment calls on one record, or an addPayment and a
\* deletePayment, were in flight together and both have finished, the
\* record's remaining_amount is max(0, amount - sum of the stored payments)
\* and its status matches that remaining amount.
Orig_C31 ==
    (/\ DOMAIN inflight = Callers
     /\ \A c \in Callers : At(c, "done")
     /\ inflight[1].lendBorrowId = inflight[2].lendBorrowId
     /\ "addPayment" \in {inflight[1].op, inflight[2].op}) =>
        LET id == inflight[1].lendBorrowId
        IN  id \in DOMAIN lendBorrow =>
                /\ lendBorrow[id].remainingAmount =
                       Max(0, lendBorrow[id].amount - Paid(id))
                /\ StatusMatches(lendBorrow[id])

----------------------------------------------------------------------------
(* WalletService.recalculateBalance and WalletService.delete.              *)

\* SUM(CASE WHEN ... THEN ... ELSE 0 END) of recalculateBalance over the
\* rows with wallet_id = walletId: income - expense - transferOut + transferIn
RECURSIVE SumCases(_, _, _)
SumCases(txs, ids, walletId) ==
    IF ids = {}
    THEN 0
    ELSE LET i == CHOOSE i \in ids : TRUE
             t == txs[i]
         IN  (IF t.type = "income" THEN t.amount ELSE 0)
             - (IF t.type = "expense" THEN t.amount ELSE 0)
             - (IF t.type = "transfer" THEN t.amount + t.transferFee ELSE 0)
             + (IF t.toWalletId = walletId THEN t.amount ELSE 0)
             + SumCases(txs, ids \ {i}, walletId)

\* recalculateBalance(walletId): the wallets table after the call
recalculateBalance(ws, txs, walletId) ==
    LET rows == {i \in DOMAIN txs : txs[i].walletId = walletId}
        balance == SumCases(txs, rows, walletId)
    IN  IF walletId \in DOMAIN ws
        THEN [ws EXCEPT ![walletId].balance = balance]
        ELSE ws

Recalculate(walletId) ==
    /\ wallets' = recalculateBalance(wallets, transactions, walletId)
    /\ UNCHANGED <<transactions, openingBalance, notLedger>>

NextRecalc ==
    \/ \E id \in StepIds, draft \in Drafts : Create(id, draft)
    \/ \E id \in StepIds : Update(id)
    \/ \E id \in StepIds : Delete(id)
    \/ \E w \in WalletIds : Recalculate(w)

SpecRecalc == Init /\ [][NextRecalc]_vars

\* the balance of w is the one create / update / delete maintain for the
\* stored transactions, from an opening balance of 0
Maintained(w) ==
    /\ openingBalance[w] = 0
    /\ wallets[w].balance = EffectSum(transactions, DOMAIN transactions, w)

\* C32: for a wallet created with balance 0 whose balance is the one
\* maintained by create / update / delete, recalculateBalance(walletId)
\* leaves the balance unchanged, also when the wallet is the destination of
\* transfers from other wallets or the source of transfers without a
\* destination.
Orig_C32 ==
    \A w \in DOMAIN wallets :
        Maintained(w) =>
            recalculateBalance(wallets, transactions, w)[w].balance =
                wallets[w].balance

----------------------------------------------------------------------------
(* BillReminderService.markAsUnpaid, and a reminder paid more than once.   *)

\* markAsUnpaid(id): UPDATE bill_reminders SET is_paid = false,
\* transaction_id = NULL WHERE id = id
markAsUnpaid(rs, id) ==
    IF id \in DOMAIN rs
    THEN [rs EXCEPT ![id].isPaid = FALSE, ![id].transactionId = Null]
    ELSE rs

MarkAsUnpaid(id) ==
    /\ billReminders' = markAsUnpaid(billReminders, id)
    /\ UNCHANGED <<budgets, notPlan>>

NextBillsLife ==
    \/ \E reminder \in BillDrafts : CreateReminder(reminder)
    \/ \E id \in 1..MaxReminders, transactionId \in Opt(BillTransactionIds) :
           MarkAsPaid(id, transactionId)
    \/ \E id \in 1..MaxReminders : MarkAsUnpaid(id)

SpecBillsLife == Init /\ [][NextBillsLife]_vars

\* the successors of reminder: the unpaid rows that createNextRecurring
\* would insert for it
Successors(rs, reminder) ==
    {i \in DOMAIN rs :
        \E n \in DOMAIN createNextRecurring(<<>>, reminder) :
            rs[i] = createNextRecurring(<<>>, reminder)[n]}

\* C33: markAsPaid on a reminder that is already paid adds no row, and
\* markAsPaid, markAsUnpaid, markAsPaid on a reminder adds at most one
\* successor to the rows that were stored.
Orig_C33 ==
    \A id \in DOMAIN billReminders, transactionId \in Opt(BillTransactionIds) :
        LET paid == markAsPaid(billReminders, id, transactionId).billReminders
            again == markAsPaid(markAsUnpaid(paid, id), id,
                                transactionId).billReminders
        IN  /\ billReminders[id].isPaid => DOMAIN paid = DOMAIN billReminders
            /\ Cardinality(Successors(again, billReminders[id]))
                   <= Cardinality(Successors(billReminders,
                                             billReminders[id])) + 1

----------------------------------------------------------------------------
(* Claims about SettingsService.set followed by get.                       *)

\* C34: from every settings table, for every key and every string value,
\* the empty string included, set(key, value) succeeds, leaves one row for
\* the key and the other rows as they were, and a following get(key)
\* returns value.
Orig_C34 ==
    \A key \in SettingKeys, value \in SettingValues :
        LET r == set(settings, key, value)
        IN  /\ ~r.failed
            /\ DOMAIN r.settings = DOMAIN settings \cup {key}
            /\ \A k \in DOMAIN settings \ {key} : r.settings[k] = settings[k]
            /\ get(r.settings, key) = {value}

----------------------------------------------------------------------------
(* TransactionService.getSpendingByCategory and getIncomeByCategory.       *)

\* the query of both: the rows of the type, dated between the bounds when
\* both bounds are given, grouped by category_id with SUM(amount), COUNT(*)
groupByCategory(txs, type, startDate, endDate) ==
    LET selected ==
            {i \in DOMAIN txs :
                /\ txs[i].type = type
                /\ (startDate # {} /\ endDate # {}) =>
                       /\ txs[i].transactionDate >= The(startDate)
                       /\ txs[i].transactionDate <= The(endDate)}
    IN  [categoryId \in {txs[i].categoryId : i \in selected} |->
            LET rows == {i \in selected : txs[i].categoryId = categoryId}
            IN  [totalAmount |-> SumAmounts(txs, rows),
                 transactionCount |-> Cardinality(rows)]]

\* getSpendingByCategory(startDate, endDate)
getSpendingByCategory(txs, startDate, endDate) ==
    groupByCategory(txs, "expense", startDate, endDate)

\* getIncomeByCategory(startDate, endDate)
getIncomeByCategory(txs, startDate, endDate) ==
    groupByCategory(txs, "income", startDate, endDate)

\* the sum of totalAmount over the groups of a result
RECURSIVE SumTotals(_, _)
SumTotals(groups, ids) ==
    IF ids = {}
    THEN 0
    ELSE LET c == CHOOSE c \in ids : TRUE
         IN  groups[c].totalAmount + SumTotals(groups, ids \ {c})

\* C35: for the same bounds, either one optional, the totalAmount of the
\* groups of getSpendingByCategory add up to getSummary's totalExpense and
\* those of getIncomeByCategory to its totalIncome.
Orig_C35 ==
    \A start \in SummaryBounds, end \in SummaryBounds :
        LET summary == getSummary(transactions, start, end)
            spending == getSpendingByCategory(transactions, start, end)
            income == getIncomeByCategory(transactions, start, end)
        IN  /\ SumTotals(spending, DOMAIN spending) = summary.totalExpense
            /\ SumTotals(income, DOMAIN income) = summary.totalIncome

----------------------------------------------------------------------------
(* LendBorrowService.getWithPayments.                                      *)

\* getWithPayments(id): {} standing for null; payments holds the ids of the
\* payment rows returned
getWithPayments(d, id) ==
    IF id \notin DOMAIN d.lendBorrow
    THEN {}
    ELSE LET record == d.lendBorrow[id]
         IN  {[amount |-> record.amount,
               remainingAmount |-> record.remainingAmount,
               status |-> record.status,
               payments |-> getPayments(d.payments, id),
               totalPaid |-> record.amount - record.remainingAmount,
               paymentPercentage |->
                   Percentage(record.amount - record.remainingAmount,
                              record.amount)]}

\* C36: for every stored record, after any addPayment / deletePayment
\* calls, getWithPayments(id) returns a totalPaid equal to the sum of the
\* amounts of the payments it returns, also when they exceed the amount.
Orig_C36 ==
    \A id \in DOMAIN lendBorrow :
        \A result \in getWithPayments(Debts(lendBorrow, lendBorrowPayments), id) :
            result.totalPaid = SumPayments(lendBorrowPayments, result.payments)

----------------------------------------------------------------------------
(* WalletService.delete: the hard delete of a wallet row.                  *)

\* delete(id): DELETE FROM wallets WHERE id = id.  With foreign keys
\* enforced, wallet_id ON DELETE CASCADE removes the wallet's transactions
\* and to_wallet_id, which names no action, rejects the statement when a
\* remaining row refers to the wallet; with foreign keys not enforced the
\* wallet row alone is removed
deleteWallet(s, id, fk) ==
    LET ws == [w \in DOMAIN s.wallets \ {id} |-> s.wallets[w]]
        kept == {i \in DOMAIN s.transactions : s.transactions[i].walletId # id}
    IN  IF id \notin DOMAIN s.wallets
        THEN [store |-> s, failed |-> FALSE]
        ELSE IF ~fk
        THEN [store |-> Store(ws, s.transactions), failed |-> FALSE]
        ELSE IF \E i \in kept : s.transactions[i].toWalletId = id
        THEN [store |-> s, failed |-> TRUE]
        ELSE [store |-> Store(ws, [i \in kept |-> s.transactions[i]]),
              failed |-> FALSE]

\* TransactionService.create(draft), run to its end
WalletCreate(id, draft) ==
    /\ id \notin DOMAIN transactions
    /\ LET r == createChecked(Store(wallets, transactions), id, draft,
                              foreignKeys)
       IN  /\ wallets' = r.store.wallets
           /\ transactions' = r.store.transactions
    /\ UNCHANGED <<openingBalance, notLedger>>

DeleteWallet(id) ==
    /\ LET r == deleteWallet(Store(wallets, transactions), id, foreignKeys)
       IN  /\ wallets' = r.store.wallets
           /\ transactions' = r.store.transactions
    /\ UNCHANGED <<openingBalance, notLedger>>

NextWallets ==
    \/ \E id \in TxIds, draft \in Drafts : WalletCreate(id, draft)
    \/ \E id \in TxIds : Delete(id)
    \/ \E w \in WalletIds : DeleteWallet(w)

SpecWallets == InitRefs /\ [][NextWallets]_vars

\* every wallet of the store has its opening balance plus the effects of
\* the transactions of the store
Consistent(s) ==
    \A w \in DOMAIN s.wallets :
        s.wallets[w].balance =
            openingBalance[w]
            + EffectSum(s.transactions, DOMAIN s.transactions, w)

\* C37: when the ledger is consistent and WalletService.delete(id) removes
\* a wallet, the ledger is consistent for the wallets that remain and no
\* stored transaction has the deleted wallet as to_wallet_id.
Orig_C37 ==
    \A id \in DOMAIN wallets :
        LET r == deleteWallet(Here, id, foreignKeys)
        IN  (Consistent(Here) /\ ~r.failed) =>
                /\ Consistent(r.store)
                /\ \A i \in DOMAIN r.store.transactions :
                       r.store.transactions[i].toWalletId # id

----------------------------------------------------------------------------
(* Two callers with BudgetService.upsertBudget calls in flight at once:    *)
(* the read and the write of a call are two steps, and the steps of the    *)
(* two calls interleave.                                                   *)

UpsertKeys == {<<"food", 1, 2024>>, <<"rent", 1, 2024>>}

upsertRest ==
    <<billReminders, ledgerVars, debtVars, stepVars, foreignKeys, settings,
      categories, zone>>

\* a caller calls upsertBudget(categoryId, amount, month, year)
UpsertStart(c, key, amount) ==
    /\ c \notin DOMAIN inflight
    /\ Cardinality(DOMAIN budgets) + Cardinality(DOMAIN inflight) < MaxBudgets
    /\ inflight' = [k \in DOMAIN inflight \cup {c} |->
                       IF k = c
                       THEN [op |-> "upsertBudget", categoryId |-> key[1],
                             month |-> key[2], year |-> key[3],
                             amount |-> amount, existing |-> {},
                             pc |-> "read"]
                       ELSE inflight[k]]
    /\ UNCHANGED <<budgets, upsertRest>>

\* const existing = await this.getByCategoryAndPeriod(categoryId, month, year)
UpsertRead(c) ==
    /\ At(c, "read")
    /\ inflight' = [inflight EXCEPT
           ![c].existing = getByCategoryAndPeriod(budgets, inflight[c].categoryId,
                                                  inflight[c].month,
                                                  inflight[c].year),
           ![c].pc = "write"]
    /\ UNCHANGED <<budgets, upsertRest>>

\* this.update(existing.id, {amount}) when a row was read, this.create(...)
\* otherwise
UpsertWrite(c) ==
    /\ At(c, "write")
    /\ budgets' =
           IF inflight[c].existing # {}
           THEN IF The(inflight[c].existing) \in DOMAIN budgets
                THEN [budgets EXCEPT
                         ![The(inflight[c].existing)].amount = inflight[c].amount]
                ELSE budgets
           ELSE createBudget(budgets,
                    [categoryId |-> inflight[c].categoryId,
                     amount |-> inflight[c].amount, period |-> "monthly",
                     month |-> inflight[c].month,
                     year |-> inflight[c].year]).budgets
    /\ inflight' = [inflight EXCEPT ![c].pc = "done"]
    /\ UNCHANGED upsertRest

\* every call in flight has resolved
UpsertSettle ==
    /\ inflight # <<>>
    /\ \A c \in DOMAIN inflight : Finished(c)
    /\ inflight' = <<>>
    /\ UNCHANGED <<budgets, upsertRest>>

NextUpsertRace ==
    \/ \E c \in Callers, key \in UpsertKeys, amount \in BudgetAmounts :
           UpsertStart(c, key, amount)
    \/ \E c \in Callers : UpsertRead(c)
    \/ \E c \in Callers : UpsertWrite(c)
    \/ UpsertSettle

SpecUpsertRace == Init /\ [][NextUpsertRace]_vars

\* C38: when two upsertBudget calls for one category, month and year were
\* in flight together and both have finished, the table holds one row for
\* that key, with the amount of one of the two calls.
Orig_C38 ==
    (/\ DOMAIN inflight = Callers
     /\ \A c \in Callers : At(c, "done")
     /\ inflight[1].categoryId = inflight[2].categoryId
     /\ inflight[1].month = inflight[2].month
     /\ inflight[1].year = inflight[2].year) =>
        LET rows == RowsFor(budgets, inflight[1].categoryId,
                            inflight[1].month, inflight[1].year)
        IN  /\ Cardinality(rows) = 1
            /\ \A i \in rows :
                   budgets[i].amount \in {inflight[1].amount, inflight[2].amount}

====
